---- MODULE Spec2Model ----
\* Verification model of the MCP hub:
\*   - the reasoning-chain sub-server (sequential-thinking-server.js)
\*   - the governance middleware "Protocol Omega" (protocol-omega.js)
\*   - the model router (ollama-router.js)
\*   - the tool registry of a sub-server (base-server.js)
\*   - the task sub-server (TaskMasterServer)
\*   - the graph memory sub-server (Neo4jMemoryServer)
EXTENDS Integers, Sequences, FiniteSets, TLC

\* ------------------------------------------------------------------
\* Bounds of the model
\* ------------------------------------------------------------------
MaxChains == 2
MaxSteps == 2
MaxTime == 1
MaxCalls == 2

\* JavaScript `undefined`, for a string field and for a numeric field
None == "undefined"
Undef == -1

ChainIds == 1 .. MaxChains
Thoughts == {"t1", "t2"}
Conclusions == {"A", "B"}
Terminal == {"completed", "failed"}

VARIABLES
    activeChains,   \* this.activeChains: Map chainId -> chain object
    chainStore,     \* this.chainStore: "neo4j" or "memory"
    dbUp,           \* whether the graph store accepts transactions
    graphChain,     \* ReasoningChain nodes of the graph: id -> properties
    graphStep,      \* ReasoningStep nodes of the graph
    graphEdges,     \* relationships of the graph
    now,            \* the wall clock read by new Date()
    result,         \* what the last tool handler returned
    omegaConfig,    \* protocol-omega.js: omegaConfig
    pc,             \* where the wrappedMcpCall in progress stands
    cur,            \* the wrappedMcpCall in progress, or the last one
    log,            \* the records writeLogEntry has persisted
    errorLog,       \* number of error records writeError has persisted
    defaultModels,  \* ollama-router: modelConfig.defaultModels
    runtimeModels,  \* the models installed in the Ollama runtime
    availableModels,  \* ollama-router: the cached inventory
    lastModelRefresh, \* ollama-router: when the inventory was last read
    rpc,            \* where the routeRequest in progress stands
    req,            \* the routeRequest in progress, or the last one
    setDefault,     \* what the last set_default_model call returned
    tools,          \* base-server: this.tools, Map name -> tool
    toolCall,       \* the last callTool: its arguments and its outcome
    tasks,          \* Task nodes of the graph: id -> properties
    taskEdges,      \* HAS_SUBTASK relationships of the graph
    taskSeq,        \* how many task ids uuidv4 has handed out
    taskResult,     \* what the last task tool handler returned
    entities,       \* nodes of the graph: (label, id) -> how many
    rels,           \* relationships between these nodes
    entityResult,   \* what the last graph memory tool handler returned
    registeredServers,\* wanaku-client: this.registeredServers, a Map in insertion order
    registerResult, \* what the last registerServer or unregisterServer returned
    queryResult,    \* what the last query_graph call returned
    proc,           \* the Node process: its entry point and whether it still runs
    served,         \* how each dispatch served so far ended
    inflight,       \* the add_step and conclude calls suspended at an await
    candidate,      \* the record handed to validateLogFormat
    verdict,     \* what validateLogFormat returned for it
    listCalls,      \* ollama.list requests of refreshAvailableModels in flight
    snapshot,       \* what the last getAvailableModels returned, or that it threw
    note,           \* content of one vault file, as the list of its paragraphs
    appendCalls,    \* append_note calls: position, what was read, outcome
    driver,         \* neo4j-client.js: whether the driver has been initialised
    isConnected,    \* neo4j-client.js: isConnected
    dbCalls,        \* transaction and health calls: position, session, outcome
    teardown,       \* graceful-shutdown.js: callbacks invoked and settled, the timer
    triggers,       \* shutdown triggers received, in order
    pendingSubtasks \* add_subtask calls suspended at an await

chainVars == <<activeChains, chainStore, dbUp, graphChain, graphStep, graphEdges, result>>

omegaVars == <<omegaConfig, pc, cur, log, errorLog>>

routerVars ==
    <<defaultModels, runtimeModels, availableModels, lastModelRefresh, rpc, req,
      setDefault>>

toolVars == <<tools, toolCall>>

taskVars == <<tasks, taskEdges, taskSeq, taskResult>>

entityVars == <<entities, rels, entityResult>>

registryVars == <<registeredServers, registerResult>>

queryVars == <<queryResult>>

processVars == <<proc, served>>

callVars == <<inflight>>

validateVars == <<candidate, verdict>>

refreshVars == <<listCalls, snapshot>>

noteVars == <<note, appendCalls>>

sessionVars == <<driver, isConnected, dbCalls>>

teardownVars == <<teardown, triggers>>

subtaskVars == <<pendingSubtasks>>

\* the state of the sub-servers other than the two above
extVars == <<routerVars, toolVars, taskVars, entityVars, registryVars, queryVars, processVars, callVars, validateVars, refreshVars, noteVars, sessionVars, teardownVars, subtaskVars>>

vars == <<chainVars, omegaVars, now, extVars>>

\* ------------------------------------------------------------------
\* Helpers
\* ------------------------------------------------------------------

\* new Date().toISOString()
Timestamp == now

\* uuidv4() for a chain: an id no chain has
NewChainId == Cardinality(DOMAIN activeChains) + 1

\* uuidv4() for a step: an id no step has (the chain that gets the step
\* and how many steps it had identify every step ever created)
NewStepId(chainId) == <<chainId, Len(activeChains[chainId].steps) + 1>>

\* Map.set(id, chain)
MapSet(m, k, v) == [x \in (DOMAIN m) \cup {k} |-> IF x = k THEN v ELSE m[x]]

\* A numbering that starts at 0: chain.steps.length
NextStepNumberFromZero(chain) == Len(chain.steps)

\* step_number: chain.steps.length + 1
NextStepNumber(chain) == Len(chain.steps) + 1

\* chain.steps.push(step)
PushStep(steps, step) == Append(steps, step)

\* chain.steps.filter(s => s.step_number <= atStep)
RECURSIVE FilterSteps(_, _)
FilterSteps(steps, atStep) ==
    IF steps = <<>> THEN <<>>
    ELSE IF Head(steps).step_number <= atStep
         THEN <<Head(steps)>> \o FilterSteps(Tail(steps), atStep)
         ELSE FilterSteps(Tail(steps), atStep)

\* atStep ? chain.steps.filter(...) : chain.steps   (0 and undefined are falsy)
StepsToCopy(chain, atStep) ==
    IF atStep # Undef /\ atStep # 0
    THEN FilterSteps(chain.steps, atStep)
    ELSE chain.steps

\* createRelationship appends " { r.k = $k }" to the SET clause when
\* properties are given, which is not a Cypher statement: tx.run rejects
RelationshipCypherValid(hasProps) == ~hasProps

\* createRelationship: MATCH both ends, CREATE the edge; no edge (null)
\* when an end is absent
CreateRelationship(edges, fromOk, toOk, edge) ==
    IF fromOk /\ toOk THEN edges \cup {edge} ELSE edges

\* ------------------------------------------------------------------
\* Initial state: the server after construction
\* ------------------------------------------------------------------
ChainInit ==
    /\ activeChains = << >>
    /\ chainStore \in {"neo4j", "memory"}
    /\ dbUp \in (IF chainStore = "neo4j" THEN BOOLEAN ELSE {TRUE})
    /\ graphChain = << >>
    /\ graphStep = {}
    /\ graphEdges = {}
    /\ result = [op |-> "none", success |-> TRUE, chainId |-> 0, n |-> 0]

\* return { success: false, error: 'Chain not found' }
NotFound(op, chainId) ==
    /\ result' = [op |-> op, success |-> FALSE, chainId |-> chainId, n |-> 0]
    /\ UNCHANGED <<activeChains, chainStore, dbUp, graphChain, graphStep, graphEdges, now>>
    /\ UNCHANGED <<omegaVars, extVars>>

\* ------------------------------------------------------------------
\* start_thinking handler.  The chain object keeps the fields the other
\* handlers read or write; prompt, context, goal and created_at are
\* written here once and never again.  A failed graph write is caught
\* and logged.
\* ------------------------------------------------------------------
StartThinking(tags, branchFrom) ==
    /\ Cardinality(DOMAIN activeChains) < MaxChains
    /\  LET chainId == NewChainId
            chain == [id |-> chainId, tags |-> tags,
                      steps |-> <<>>, status |-> "in_progress",
                      conclusion |-> None, completed_at |-> Undef,
                      branch_from |-> branchFrom]
        IN  /\ activeChains' = MapSet(activeChains, chainId, chain)
            /\ IF chainStore = "neo4j" /\ dbUp
               THEN /\ graphChain' = MapSet(graphChain, chainId,
                          [status |-> "in_progress"])
                    /\ IF branchFrom # Undef /\ RelationshipCypherValid(FALSE)
                       THEN graphEdges' = CreateRelationship(graphEdges,
                                branchFrom \in DOMAIN graphChain, TRUE,
                                [type |-> "BRANCHED_TO", from |-> branchFrom,
                                 to |-> chainId, order |-> Undef])
                       ELSE UNCHANGED graphEdges
               ELSE UNCHANGED <<graphChain, graphEdges>>
            /\ result' = [op |-> "start_thinking", success |-> TRUE,
                          chainId |-> chainId, n |-> 0]
            /\ UNCHANGED <<chainStore, dbUp, graphStep, now>>
            /\ UNCHANGED <<omegaVars, extVars>>

\* ------------------------------------------------------------------
\* add_step handler.  step_type, confidence, data and created_at are
\* carried in the step like thought.
\* ------------------------------------------------------------------
AddStep(chainId, thought) ==
    IF chainId \notin DOMAIN activeChains
    THEN NotFound("add_step", chainId)
    ELSE
      LET chain == activeChains[chainId]
          stepId == NewStepId(chainId)
          step == [id |-> stepId, step_number |-> NextStepNumber(chain),
                   thought |-> thought]
      IN
      /\ Len(chain.steps) < MaxSteps
      /\ activeChains' = [activeChains EXCEPT ![chainId] =
             [chain EXCEPT !.steps = PushStep(chain.steps, step)]]
      /\ IF chainStore = "neo4j" /\ dbUp
         THEN /\ graphStep' = graphStep \cup
                    {[id |-> stepId, step_number |-> step.step_number]}
              /\ IF RelationshipCypherValid(TRUE)
                 THEN graphEdges' = CreateRelationship(graphEdges,
                          chainId \in DOMAIN graphChain, TRUE,
                          [type |-> "HAS_STEP", from |-> chainId,
                           to |-> stepId, order |-> step.step_number])
                 ELSE UNCHANGED graphEdges
         ELSE UNCHANGED <<graphStep, graphEdges>>
      /\ result' = [op |-> "add_step", success |-> TRUE,
                    chainId |-> chainId, n |-> step.step_number]
      /\ UNCHANGED <<chainStore, dbUp, graphChain, now>>
      /\ UNCHANGED <<omegaVars, extVars>>

\* ------------------------------------------------------------------
\* conclude handler
\* ------------------------------------------------------------------
ConcludeStatus(success) == IF success THEN "completed" ELSE "failed"

Conclude(chainId, conclusion, success) ==
    IF chainId \notin DOMAIN activeChains
    THEN NotFound("conclude", chainId)
    ELSE
      LET chain == activeChains[chainId]
          t == Timestamp
      IN
          /\ activeChains' = [activeChains EXCEPT ![chainId] =
                 [chain EXCEPT !.status = ConcludeStatus(success),
                               !.conclusion = conclusion,
                               !.completed_at = t]]
          /\ IF chainStore = "neo4j" /\ dbUp /\ chainId \in DOMAIN graphChain
             THEN graphChain' = [graphChain EXCEPT ![chainId] =
                      [status |-> ConcludeStatus(success)]]
             ELSE UNCHANGED graphChain
          /\ result' = [op |-> "conclude", success |-> TRUE,
                        chainId |-> chainId, n |-> 0]
          /\ UNCHANGED <<chainStore, dbUp, graphStep, graphEdges, now>>
          /\ UNCHANGED <<omegaVars, extVars>>

\* ------------------------------------------------------------------
\* branch_chain handler
\* ------------------------------------------------------------------
BranchChain(chainId, atStep) ==
    IF chainId \notin DOMAIN activeChains
    THEN NotFound("branch_chain", chainId)
    ELSE
      LET chain == activeChains[chainId] IN
      /\ Cardinality(DOMAIN activeChains) < MaxChains
      /\  LET newChainId == NewChainId
              stepsToCopy == StepsToCopy(chain, atStep)
              newChain == [id |-> newChainId,
                           tags |-> Append(chain.tags, "branch"),
                           steps |-> stepsToCopy, status |-> "in_progress",
                           conclusion |-> None, completed_at |-> Undef,
                           branch_from |-> chainId]
          IN  /\ activeChains' = MapSet(activeChains, newChainId, newChain)
              /\ IF chainStore = "neo4j" /\ dbUp
                 THEN /\ graphChain' = MapSet(graphChain, newChainId,
                            [status |-> "in_progress"])
                      /\ IF RelationshipCypherValid(FALSE)
                         THEN graphEdges' = CreateRelationship(graphEdges,
                                  chainId \in DOMAIN graphChain, TRUE,
                                  [type |-> "BRANCHED_TO", from |-> chainId,
                                   to |-> newChainId, order |-> Undef])
                         ELSE UNCHANGED graphEdges
                 ELSE UNCHANGED <<graphChain, graphEdges>>
              /\ result' = [op |-> "branch_chain", success |-> TRUE,
                            chainId |-> newChainId, n |-> Len(stepsToCopy)]
              /\ UNCHANGED <<chainStore, dbUp, graphStep, now>>
              /\ UNCHANGED <<omegaVars, extVars>>

\* ------------------------------------------------------------------
\* The reasoning-chain sub-server: any tool call, with any arguments
\* ------------------------------------------------------------------
AtSteps == {Undef} \cup (0 .. MaxSteps)

StartThinkingCall ==
    \E b \in {Undef, 1} : StartThinking(<<>>, b)

AddStepCall ==
    \E c \in ChainIds, th \in Thoughts : AddStep(c, th)

ConcludeCall ==
    \E c \in ChainIds, k \in Conclusions, s \in BOOLEAN : Conclude(c, k, s)

BranchChainCall ==
    \E c \in ChainIds, a \in AtSteps : BranchChain(c, a)

\* Time passes
Tick ==
    /\ now < MaxTime
    /\ now' = now + 1
    /\ UNCHANGED <<chainVars, omegaVars, extVars>>

\* ==================================================================
\* Governance middleware "Protocol Omega" (protocol-omega.js)
\* ==================================================================

\* JavaScript values held by the fields of a log entry
Str(s) == [t |-> "string", v |-> s]
Num(s) == [t |-> "number", v |-> s]
Absent == [t |-> "undefined", v |-> ""]
Obj == [t |-> "object", v |-> "{}"]

\* !x
Falsy(x) ==
    \/ x.t = "undefined"
    \/ x.t = "string" /\ x.v = ""
    \/ x.t = "number" /\ x.v = "0"

\* typeof x
Typeof(x) == x.t

\* A timestamp string is held by its form; the instant it denotes is the
\* entry's field `at`.  "iso" is YYYY-MM-DDTHH:MM:SSZ, "iso_ms" the same
\* with .sss (what toISOString() returns), "iso_baddate" has that shape
\* but names no date (month 13), "plain" is any other text.
IsoRegexTest(x) == x.t = "string" /\ x.v \in {"iso", "iso_ms", "iso_baddate"}
DateParses(x) == x.t = "string" /\ x.v \in {"iso", "iso_ms"}

\* new Date().toISOString()
ToISOString == Str("iso_ms")

\* isValidISO8601
IsValidISO8601(cfg, timestamp) ==
    IF ~cfg.iso8601Strict THEN TRUE
    ELSE IF ~IsoRegexTest(timestamp) THEN FALSE
    ELSE DateParses(timestamp)

\* validateLogEntry: the list of errors
ValidateLogEntry(cfg, entry) ==
    (IF cfg.requireTimestamp /\ Falsy(entry.timestamp)
       THEN <<"Missing required field: timestamp">>
     ELSE IF ~Falsy(entry.timestamp) /\ ~IsValidISO8601(cfg, entry.timestamp)
       THEN <<"Invalid ISO 8601 timestamp format">>
     ELSE <<>>)
    \o (IF cfg.requireSource /\ Falsy(entry.source)
          THEN <<"Missing required field: source">> ELSE <<>>)
    \o (IF cfg.requireAction /\ Falsy(entry.action)
          THEN <<"Missing required field: action">> ELSE <<>>)
    \o (IF Falsy(entry.type)
          THEN <<"Missing required field: type">> ELSE <<>>)
    \o (IF ~Falsy(entry.timestamp) /\ Typeof(entry.timestamp) # "string"
          THEN <<"Field timestamp must be a string">> ELSE <<>>)
    \o (IF ~Falsy(entry.source) /\ Typeof(entry.source) # "string"
          THEN <<"Field source must be a string">> ELSE <<>>)
    \o (IF ~Falsy(entry.action) /\ Typeof(entry.action) # "string"
          THEN <<"Field action must be a string">> ELSE <<>>)
    \o (IF ~Falsy(entry.type) /\ Typeof(entry.type) # "string"
          THEN <<"Field type must be a string">> ELSE <<>>)
    \o (IF ~Falsy(entry.data) /\ Typeof(entry.data) # "object"
          THEN <<"Field data must be an object">> ELSE <<>>)

\* validateLogFormat
ValidateLogFormat(cfg, entry) ==
    IF ~cfg.validateSchema
    THEN [valid |-> TRUE, errors |-> <<>>]
    ELSE LET errors == ValidateLogEntry(cfg, entry)
         IN  [valid |-> Len(errors) = 0, errors |-> errors]

\* preActionCheck; mkdirOk: whether fs.mkdir(vaultPath) succeeded
PreActionCheck(cfg, mkdirOk) ==
    IF mkdirOk
    THEN [allowed |-> TRUE, reason |-> "Logging available"]
    ELSE IF cfg.blockOnFailure
         THEN [allowed |-> FALSE, reason |-> "Logging system not available"]
         ELSE [allowed |-> TRUE,
               reason |-> "Logging failed but proceeding (blocking disabled)"]

\* The try block of enforceProtocolOmega: the code of the error it throws,
\* "" when it runs to the end.  writeOk: whether writeLogEntry resolves.
EnforceTry(cfg, entry, mkdirOk, writeOk) ==
    LET preCheck == PreActionCheck(cfg, mkdirOk)
        validation == ValidateLogFormat(cfg, entry)
    IN  IF ~preCheck.allowed /\ cfg.blockOnFailure THEN "OMEGA_BLOCKED"
        ELSE IF ~validation.valid THEN "OMEGA_INVALID_FORMAT"
        ELSE IF ~writeOk THEN "WRITE_FAILED"
        ELSE ""

\* A catch block that rethrows whatever the configuration says
RethrowsAlways(cfg) == TRUE

\* The catch block of enforceProtocolOmega: if (omegaConfig.enforceLogging) throw error
Rethrows(cfg) == cfg.enforceLogging

\* enforceProtocolOmega: what it returns, or throws
EnforceProtocolOmega(cfg, entry, mkdirOk, writeOk) ==
    LET code == EnforceTry(cfg, entry, mkdirOk, writeOk)
    IN  IF code = ""
        THEN [threw |-> FALSE, success |-> TRUE, logged |-> TRUE, code |-> ""]
        ELSE IF Rethrows(cfg)
        THEN [threw |-> TRUE, success |-> FALSE, logged |-> FALSE, code |-> code]
        ELSE [threw |-> FALSE, success |-> FALSE, logged |-> FALSE, code |-> code]

\* A writer that puts the record at the head of the log
WriteLogEntryAtHead(records, entry) == <<entry>> \o records

\* writeLogEntry (obsidian-writer.js): appends the record to today's log
WriteLogEntry(records, entry) == Append(records, entry)

\* writeError (obsidian-writer.js): persists one error record
WriteError(n) == n + 1

\* The arguments wrappedMcpCall is called with
Servers == {Str("hub"), Str(""), Num("7")}
ToolNames == {"echo"}

\* omegaConfig as the module is loaded; the two environment variables
\* decide enforceLogging and blockOnFailure
OmegaConfigs ==
    [enforceLogging : BOOLEAN, blockOnFailure : BOOLEAN,
     requireTimestamp : {TRUE}, requireSource : {TRUE}, requireAction : {TRUE},
     iso8601Strict : {TRUE}, validateSchema : {TRUE}]

DefaultOmegaConfig ==
    [enforceLogging |-> TRUE, blockOnFailure |-> TRUE,
     requireTimestamp |-> TRUE, requireSource |-> TRUE, requireAction |-> TRUE,
     iso8601Strict |-> TRUE, validateSchema |-> TRUE]

NoCall ==
    [id |-> 0, toolName |-> "", entry |-> Absent, mkdirOk |-> TRUE,
     pre |-> [threw |-> FALSE, success |-> TRUE, logged |-> TRUE, code |-> ""],
     toolRuns |-> 0, outcome |-> "none", error |-> "", verified |-> FALSE]

OmegaInit ==
    /\ omegaConfig \in OmegaConfigs
    /\ pc = "idle"
    /\ cur = NoCall
    /\ log = <<>>
    /\ errorLog = 0

\* const logEntry = {...} of wrappedMcpCall; `call` stands for data.arguments
LogEntry(id, server, toolName) ==
    [timestamp |-> ToISOString, at |-> Timestamp, type |-> Str("tool_call"),
     source |-> server, action |-> Str(toolName), data |-> Obj, call |-> id]

\* { ...logEntry, action: `${toolName}_precheck` }
PreEntry(logEntry, toolName) ==
    [logEntry EXCEPT !.action = Str(toolName \o "_precheck")]

\* resultEntry of postActionVerification:
\* { ...entry, action: `${entry.action}_result`, data: {...entry.data, result} }
ResultEntry(entry) ==
    [entry EXCEPT !.action = Str(entry.action.v \o "_result"), !.data = Obj]

\* ------------------------------------------------------------------
\* wrappedMcpCall up to the tool call: builds logEntry and awaits
\* enforceProtocolOmega.  errWriteOk: whether writeError resolves (its
\* failure is caught and logged).
\* ------------------------------------------------------------------
WrappedMcpCallPre(server, toolName, mkdirOk, writeOk, errWriteOk) ==
    /\ pc = "idle"
    /\ cur.id < MaxCalls
    /\ LET id == cur.id + 1
           logEntry == LogEntry(id, server, toolName)
           preEntry == PreEntry(logEntry, toolName)
           r == EnforceProtocolOmega(omegaConfig, preEntry, mkdirOk, writeOk)
       IN  /\ log' = IF r.code = "" THEN WriteLogEntry(log, preEntry) ELSE log
           /\ errorLog' = IF r.code # "" /\ errWriteOk
                          THEN WriteError(errorLog) ELSE errorLog
           /\ cur' = [id |-> id, toolName |-> toolName, entry |-> logEntry,
                      mkdirOk |-> mkdirOk, pre |-> r, toolRuns |-> 0,
                      outcome |-> IF r.threw THEN "threw" ELSE "pending",
                      error |-> IF r.threw THEN r.code ELSE "",
                      verified |-> FALSE]
           /\ pc' = IF r.threw THEN "idle" ELSE "tool"
    /\ UNCHANGED <<omegaConfig, now, chainVars, extVars>>

\* ------------------------------------------------------------------
\* wrappedMcpCall: result = await toolFunction(...args), and the catch
\* block when it throws: await writeError(...); throw error
\* ------------------------------------------------------------------
WrappedMcpCallTool(toolOk, errWriteOk) ==
    /\ pc = "tool"
    /\ IF toolOk
       THEN /\ cur' = [cur EXCEPT !.toolRuns = @ + 1]
            /\ pc' = "post"
            /\ UNCHANGED errorLog
       ELSE /\ cur' = [cur EXCEPT !.toolRuns = @ + 1, !.outcome = "threw",
                          !.error = IF errWriteOk THEN "TOOL_ERROR"
                                    ELSE "WRITE_ERROR_FAILED"]
            /\ errorLog' = IF errWriteOk THEN WriteError(errorLog) ELSE errorLog
            /\ pc' = "idle"
    /\ UNCHANGED <<omegaConfig, log, now, chainVars, extVars>>

\* ------------------------------------------------------------------
\* wrappedMcpCall after the tool returned: await postActionVerification,
\* which catches a failed write, then return result
\* ------------------------------------------------------------------
PostActionVerification(records, entry, writeOk) ==
    IF writeOk
    THEN [verified |-> TRUE, records |-> WriteLogEntry(records, ResultEntry(entry))]
    ELSE [verified |-> FALSE, records |-> records]

WrappedMcpCallPost(writeOk) ==
    /\ pc = "post"
    /\ LET v == PostActionVerification(log, cur.entry, writeOk)
       IN  /\ log' = v.records
           /\ cur' = [cur EXCEPT !.outcome = "returned", !.verified = v.verified]
    /\ pc' = "idle"
    /\ UNCHANGED <<omegaConfig, errorLog, now, chainVars, extVars>>

\* ------------------------------------------------------------------
\* validateLogFormat on any record
\* ------------------------------------------------------------------
\* the values a field of a record may hold: absent, '', strings, a number,
\* an object
TimestampValues ==
    {Absent, Str(""), Str("iso"), Str("iso_ms"), Str("iso_baddate"),
     Str("plain"), Num("7")}

FieldValues == {Absent, Str(""), Str("hub"), Num("7")}

DataValues == {Absent, Obj, Str("note"), Num("7")}

Records ==
    [timestamp : TimestampValues, type : FieldValues, source : FieldValues,
     action : FieldValues, data : DataValues]

NoValidation == [called |-> FALSE, valid |-> FALSE, errors |-> <<>>]

ValidateInit ==
    /\ candidate = [timestamp |-> Absent, type |-> Absent, source |-> Absent,
                    action |-> Absent, data |-> Absent]
    /\ verdict = NoValidation

\* validateLogFormat(candidate)
ValidateLogFormatCall ==
    /\ ~verdict.called
    /\ LET r == ValidateLogFormat(omegaConfig, candidate)
       IN verdict' = [called |-> TRUE, valid |-> r.valid, errors |-> r.errors]
    /\ UNCHANGED candidate
    /\ UNCHANGED <<chainVars, omegaVars, now, routerVars, toolVars, taskVars,
                   entityVars, registryVars, queryVars, processVars, callVars,
                refreshVars, noteVars, sessionVars, teardownVars,
                subtaskVars>>

\* ==================================================================
\* The model router (ollama-router.js)
\* ==================================================================
\* A model name is the sequence of its parts ("qwq", ":latest"), so that
\* String.startsWith is computed; '' and undefined are both <<>>, the two
\* are falsy alike.  An error message is the sequence of its words.
Qwq == <<"qwq">>
QwqLatest == <<"qwq", ":latest">>
LlamaLatest == <<"llama3.2", ":latest">>
ModelNames == {Qwq, QwqLatest, LlamaLatest}
NoModel == <<>>

\* modelConfig.maxRetries (OLLAMA_MAX_RETRIES unset)
maxRetries == 3

\* MODEL_CACHE_TTL, in milliseconds
MODEL_CACHE_TTL == 300000

\* milliseconds between two readings of the clock
ClockUnitMs == 400000

\* Date.now()
DateNow == now * ClockUnitMs

\* taskTypes, and the keys of modelConfig.defaultModels.  coding, vision
\* and embedding are looked up exactly as reasoning is.
TaskTypes == {"reasoning", "chat", "general"}
TableKeys == {"reasoning", "chat", "fallback"}

\* modelConfig.defaultModels with no environment override
DefaultModels ==
    [k \in TableKeys |-> IF k = "reasoning" THEN QwqLatest ELSE LlamaLatest]

\* String.prototype.startsWith
StartsWith(s, prefix) ==
    Len(prefix) <= Len(s) /\ SubSeq(s, 1, Len(prefix)) = prefix

\* models.some(m => m.name === modelName || m.name.startsWith(modelName))
SomeModelMatches(models, modelName) ==
    \E m \in models : m = modelName \/ StartsWith(m, modelName)

\* getAvailableModels: whether the cache is read again from the runtime
NeedsRefresh ==
    lastModelRefresh = Undef \/ DateNow - lastModelRefresh > MODEL_CACHE_TTL

\* getModelForTask
GetModelForTask(taskType) ==
    IF taskType \in DOMAIN defaultModels /\ defaultModels[taskType] # NoModel
    THEN defaultModels[taskType]
    ELSE defaultModels["fallback"]

\* setModelForTask
SetModelForTask(taskType, modelName) ==
    defaultModels' =
        IF taskType \in DOMAIN defaultModels /\ defaultModels[taskType] # NoModel
        THEN [defaultModels EXCEPT ![taskType] = modelName]
        ELSE defaultModels

NoSetDefault == [success |-> FALSE, taskType |-> "none", model |-> NoModel]

\* the set_default_model handler
SetDefaultModel(taskType, model) ==
    /\ SetModelForTask(taskType, model)
    /\ setDefault' = [success |-> TRUE, taskType |-> taskType, model |-> model]
    /\ UNCHANGED <<runtimeModels, availableModels, lastModelRefresh, rpc, req>>
    /\ UNCHANGED <<chainVars, omegaVars, now, toolVars, taskVars, entityVars,
                registryVars, queryVars, processVars, callVars,
                validateVars, refreshVars, noteVars, sessionVars,
                teardownVars, subtaskVars>>

\* error.message.toLowerCase(), word by word
ToLowerCase(w) ==
    CASE w = "ECONNREFUSED" -> "econnrefused"
      [] w = "ETIMEDOUT" -> "etimedout"
      [] w = "ECONNRESET" -> "econnreset"
      [] w = "Timeout" -> "timeout"
      [] OTHER -> w

RetryableMessages == {"ECONNREFUSED", "ETIMEDOUT", "ECONNRESET", "timeout", "connection"}

\* a test that takes every error for a retryable one
IsRetryableAlways(message) == TRUE

\* isRetryableError
IsRetryableError(message) ==
    \E msg \in RetryableMessages :
        \E i \in 1 .. Len(message) : ToLowerCase(message[i]) = ToLowerCase(msg)

\* What the runtime answers to generate/chat: the response, or an error
ConnRefused == <<"connect", "ECONNREFUSED">>
RequestTimeout == <<"Request", "Timeout">>
ModelNotFound == <<"model", "not", "found">>
RuntimeOk == [ok |-> TRUE, message |-> <<>>]
RuntimeError(message) == [ok |-> FALSE, message |-> message]

\* the runtime serves a model it has installed, under its name or under
\* its name without the default tag
RuntimeHas(model) ==
    \E m \in runtimeModels : m = model \/ m = model \o <<":latest">>

RuntimeAnswers(model) ==
    {RuntimeError(ConnRefused), RuntimeError(RequestTimeout)}
      \cup (IF RuntimeHas(model) THEN {RuntimeOk} ELSE {RuntimeError(ModelNotFound)})

\* the options argument of routeRequest: whether it has a model key, and
\* the value of options.model
RouteOptions ==
    {[hasModel |-> FALSE, model |-> NoModel], [hasModel |-> TRUE, model |-> NoModel]}
      \cup {[hasModel |-> TRUE, model |-> m] : m \in ModelNames}

NoRequest ==
    [taskType |-> "none", opts |-> [hasModel |-> FALSE, model |-> NoModel],
     primary |-> NoModel, fallback |-> NoModel,
     inventoryRead |-> FALSE, models |-> {}, isAvailable |-> FALSE,
     selectedModel |-> NoModel, invokedModel |-> NoModel,
     retryCount |-> 0, invocations |-> 0, outcome |-> "none", error |-> <<>>]

RuntimeInventories == SUBSET {QwqLatest, LlamaLatest}

RouterInit ==
    /\ defaultModels = DefaultModels
    /\ runtimeModels \in RuntimeInventories
    /\ availableModels = {}
    /\ lastModelRefresh = Undef
    /\ rpc = "idle"
    /\ req = NoRequest
    /\ setDefault = NoSetDefault

\* a refresh that stamps the time whether ollama.list answered or not
RefreshStampAlways(refreshed) == DateNow

\* refreshAvailableModels: lastModelRefresh = new Date() after ollama.list
\* has answered, and no assignment when it has thrown
RefreshStamp(refreshed) == IF refreshed THEN DateNow ELSE lastModelRefresh

\* routeRequest up to the call of executeWithRetry.  listOk: whether
\* ollama.list answers, should refreshAvailableModels call it
RouteRequest(taskType, options, listOk) ==
    /\ rpc = "idle"
    /\ LET primary == GetModelForTask(taskType)
           selected == IF options.model # NoModel THEN options.model ELSE primary
           refreshed == NeedsRefresh /\ listOk
           inventoryRead == ~NeedsRefresh \/ listOk
           models == IF refreshed THEN runtimeModels ELSE availableModels
           isAvailable == inventoryRead /\ SomeModelMatches(models, selected)
       IN /\ availableModels' = models
          /\ lastModelRefresh' = RefreshStamp(refreshed)
          /\ req' = [NoRequest EXCEPT
                       !.taskType = taskType, !.opts = options,
                       !.primary = primary,
                       !.fallback = defaultModels["fallback"],
                       !.inventoryRead = inventoryRead,
                       !.models = IF inventoryRead THEN models ELSE {},
                       !.isAvailable = isAvailable,
                       !.selectedModel = IF isAvailable THEN selected
                                         ELSE defaultModels["fallback"]]
    /\ rpc' = "exec"
    /\ UNCHANGED <<defaultModels, runtimeModels, setDefault>>
    /\ UNCHANGED <<chainVars, omegaVars, now, toolVars, taskVars, entityVars,
                registryVars, queryVars, processVars, callVars,
                validateVars, refreshVars, noteVars, sessionVars,
                teardownVars, subtaskVars>>

\* requestOptions.model of executeWithRetry: {model, ..., ...options}
RequestModel(model, options) ==
    IF options.hasModel THEN options.model ELSE model

\* the retry guard of executeWithRetry
MayRetryOnceMore(retryCount) == retryCount <= maxRetries

MayRetry(retryCount) == retryCount < maxRetries

\* one call of executeWithRetry, then what routeRequest does with the
\* response or with the error
ExecuteWithRetry(answer) ==
    /\ rpc = "exec"
    /\ LET model == RequestModel(req.selectedModel, req.opts)
           called == [req EXCEPT !.invokedModel = model,
                                 !.invocations = req.invocations + 1]
       IN /\ answer \in RuntimeAnswers(model)
          /\ IF answer.ok
             THEN /\ req' = [called EXCEPT !.outcome = "success"]
                  /\ rpc' = "idle"
             ELSE IF MayRetry(req.retryCount) /\ IsRetryableError(answer.message)
                  THEN /\ req' = [called EXCEPT !.retryCount = req.retryCount + 1]
                       /\ rpc' = "exec"
                  ELSE /\ req' = [called EXCEPT !.outcome = "error",
                                                !.error = answer.message]
                       /\ rpc' = "idle"
    /\ UNCHANGED <<defaultModels, runtimeModels, availableModels, lastModelRefresh,
                   setDefault>>
    /\ UNCHANGED <<chainVars, omegaVars, now, toolVars, taskVars, entityVars,
                registryVars, queryVars, processVars, callVars,
                validateVars, refreshVars, noteVars, sessionVars,
                teardownVars, subtaskVars>>

\* ------------------------------------------------------------------
\* getAvailableModels when calls overlap: a call that finds the cache
\* stale is suspended at await ollama.list, and other calls run meanwhile
\* ------------------------------------------------------------------
MaxListCalls == 3

RefreshInit ==
    /\ listCalls = 0
    /\ snapshot = [models |-> {}, threw |-> FALSE]

RefreshFrame ==
    /\ UNCHANGED <<defaultModels, runtimeModels, rpc, req, setDefault>>
    /\ UNCHANGED <<chainVars, omegaVars, now, toolVars, taskVars, entityVars,
                   registryVars, queryVars, processVars, callVars, validateVars,
                   noteVars, sessionVars, teardownVars, subtaskVars>>

\* getAvailableModels(forceRefresh) up to await ollama.list, or to its
\* return when the cache is fresh
BeginGetAvailableModels(forceRefresh) ==
    /\ IF forceRefresh \/ NeedsRefresh
       THEN /\ listCalls < MaxListCalls
            /\ listCalls' = listCalls + 1
            /\ UNCHANGED snapshot
       ELSE /\ snapshot' = [models |-> availableModels, threw |-> FALSE]
            /\ UNCHANGED listCalls
    /\ UNCHANGED <<availableModels, lastModelRefresh>>
    /\ RefreshFrame

\* refreshAvailableModels from await ollama.list to the return of
\* getAvailableModels, or to its throw when ollama.list has thrown
ResumeRefresh(listOk) ==
    /\ listCalls > 0
    /\ listCalls' = listCalls - 1
    /\ IF listOk
       THEN /\ availableModels' = runtimeModels
            /\ lastModelRefresh' = RefreshStamp(TRUE)
            /\ snapshot' = [models |-> runtimeModels, threw |-> FALSE]
       ELSE /\ snapshot' = [snapshot EXCEPT !.threw = TRUE]
            /\ UNCHANGED <<availableModels, lastModelRefresh>>
    /\ RefreshFrame

\* ==================================================================
\* The tool registry of a sub-server (base-server.js)
\* ==================================================================
RegistryNames == {"echo", "create_entity"}
CallNames == RegistryNames \cup {"nope"}
ArgFields == {"label", "id"}

\* what a handler does with its arguments: it returns a string, returns
\* an object, or throws an Error with a message
HandlerOutcomes ==
    {[threw |-> FALSE, value |-> Str("done")],
     [threw |-> FALSE, value |-> Obj],
     [threw |-> TRUE, value |-> Str("boom")]}

\* text of a result envelope: the string itself, or JSON.stringify of it
ResultText(value) ==
    IF Typeof(value) = "string"
    THEN [json |-> FALSE, body |-> <<value.v>>]
    ELSE [json |-> TRUE, body |-> <<value.v>>]

\* JSON.stringify({error: error.message, tool: name})
ErrorText(message, name) ==
    [json |-> TRUE, body |-> <<"error", message, "tool", name>>]

NoText == [json |-> FALSE, body |-> <<>>]

\* the envelope callTool returns when the handler returns
ResultEnvelope(value) == [text |-> ResultText(value), isError |-> None]

\* the envelope callTool returns when the handler throws
ErrorEnvelopeUnflagged(message, name) ==
    [text |-> ErrorText(message, name), isError |-> None]

ErrorEnvelope(message, name) ==
    [text |-> ErrorText(message, name), isError |-> "true"]

NoEnvelope == [text |-> NoText, isError |-> None]

NoToolCall ==
    [name |-> "none", args |-> {}, found |-> FALSE, required |-> {},
     handlerInvoked |-> FALSE, handler |-> [threw |-> FALSE, value |-> Absent],
     raised |-> FALSE, error |-> <<>>, envelope |-> NoEnvelope]

ToolInit ==
    /\ tools = << >>
    /\ toolCall = NoToolCall

\* registerTool.  complete: the tool has name, description, inputSchema
\* and handler
RegisterTool(name, required, complete) ==
    /\ tools' = IF complete THEN MapSet(tools, name, [required |-> required])
                ELSE tools
    /\ UNCHANGED toolCall
    /\ UNCHANGED <<chainVars, omegaVars, now, routerVars, taskVars, entityVars,
                registryVars, queryVars, processVars, callVars,
                validateVars, refreshVars, noteVars, sessionVars,
                teardownVars, subtaskVars>>

\* callTool
CallTool(name, args, outcome) ==
    /\ IF name \notin DOMAIN tools
       THEN toolCall' = [NoToolCall EXCEPT
                           !.name = name, !.args = args,
                           !.raised = TRUE,
                           !.error = <<"Tool", name, "not", "found">>]
       ELSE LET called == [NoToolCall EXCEPT
                             !.name = name, !.args = args, !.found = TRUE,
                             !.required = tools[name].required,
                             !.handlerInvoked = TRUE, !.handler = outcome]
            IN toolCall' =
                 IF outcome.threw
                 THEN [called EXCEPT !.envelope = ErrorEnvelope(outcome.value.v, name)]
                 ELSE [called EXCEPT !.envelope = ResultEnvelope(outcome.value)]
    /\ UNCHANGED tools
    /\ UNCHANGED <<chainVars, omegaVars, now, routerVars, taskVars, entityVars,
                registryVars, queryVars, processVars, callVars,
                validateVars, refreshVars, noteVars, sessionVars,
                teardownVars, subtaskVars>>

\* ==================================================================
\* The task sub-server (TaskMasterServer) on the graph store
\* ==================================================================
\* Of a Task node the model keeps status, progress, completed_at and
\* result; of
\* the relationships between tasks it keeps the HAS_SUBTASK ones, as pairs
\* <<parent id, subtask id>>.  null and an absent property are Undef.
MaxTasks == 3

TaskIds == 1 .. MaxTasks

\* uuidv4() for a task: an id no task has or had
NewTaskId == taskSeq + 1

\* the status values the tools' callers pass (in_progress, blocked,
\* deferred and cancelled are stored exactly as pending is)
CreateStatuses == {"pending"}
UpdateStatuses == {None, "pending", "completed"}
Progresses == {Undef, 50}

\* taskData of create_task, subtaskData of add_subtask
TaskData(status) ==
    [status |-> status, progress |-> Undef, completed_at |-> Undef, result |-> None]

\* the result argument of complete_task and update_task: omitted, or notes
Results == {None, "r1"}

\* updateData of update_task: the arguments that are not undefined, then
\* completed_at and progress when the new status is completed.  hasResult:
\* the object has a result key
UpdateData(status, progress, notes, timestamp) ==
    [status |-> status,
     progress |-> IF status = "completed" THEN 100 ELSE progress,
     completed_at |-> IF status = "completed" THEN timestamp ELSE Undef,
     result |-> notes,
     hasResult |-> notes # None]

\* the properties complete_task passes to updateEntity
CompleteData(notes, timestamp) ==
    [status |-> "completed", progress |-> 100, completed_at |-> timestamp,
     result |-> notes, hasResult |-> TRUE]

\* tx.run(cypher, {id, ...properties}) with a property whose value is
\* undefined: the driver sends null for it, or leaves the parameter out
\* and the statement that names it is rejected
ParametersAccepted(properties, undefinedIsNull) ==
    (properties.hasResult /\ properties.result = None) => undefinedIsNull

\* getEntityById('Task', id)
GetEntityById(nodes, id) == id \in DOMAIN nodes

\* createEntity('Task', data)
CreateEntity(nodes, id, data) == MapSet(nodes, id, data)

\* updateEntity('Task', id, properties): SET each given property
UpdateEntity(nodes, id, properties) ==
    IF id \notin DOMAIN nodes THEN nodes
    ELSE [nodes EXCEPT ![id] =
            [status |-> IF properties.status # None THEN properties.status
                        ELSE @.status,
             progress |-> IF properties.progress # Undef THEN properties.progress
                          ELSE @.progress,
             completed_at |-> IF properties.completed_at # Undef
                              THEN properties.completed_at
                              ELSE @.completed_at,
             result |-> IF properties.hasResult THEN properties.result
                        ELSE @.result]]

\* deleteEntity('Task', id) for each id of a set: DETACH DELETE
DeleteEntities(nodes, ids) == [x \in (DOMAIN nodes) \ ids |-> nodes[x]]
DetachEdges(edges, ids) == {e \in edges : e[1] \notin ids /\ e[2] \notin ids}

\* getEntityRelationships('Task', id, 'outgoing', 'HAS_SUBTASK'): the ids
\* of the nodes at the other end
IncomingSubtasks(edges, id) == {e[1] : e \in {x \in edges : x[2] = id}}

OutgoingSubtasks(edges, id) == {e[2] : e \in {x \in edges : x[1] = id}}

NoTaskResult ==
    [op |-> "none", success |-> FALSE, threw |-> FALSE, taskId |-> Undef,
     parentTaskId |-> Undef, deleteSubtasks |-> FALSE, subtasks |-> {}]

TaskInit ==
    /\ tasks = << >>
    /\ taskEdges = {}
    /\ taskSeq = 0
    /\ taskResult = NoTaskResult

TaskFrame ==
    UNCHANGED <<chainVars, omegaVars, now, routerVars, toolVars, entityVars,
                registryVars, queryVars, processVars, callVars,
                validateVars, refreshVars, noteVars, sessionVars,
                teardownVars, subtaskVars>>

\* create_task.  created: createEntity's transaction commits; linked:
\* createRelationship's transaction commits.  No caller knows the id the
\* task is about to get, so parentTaskId is another id
CreateTask(status, parentTaskId, created, linked) ==
    /\ taskSeq < MaxTasks
    /\ LET taskId == NewTaskId
           called == [NoTaskResult EXCEPT !.op = "create_task", !.taskId = taskId,
                                          !.parentTaskId = parentTaskId]
           withTask == CreateEntity(tasks, taskId, TaskData(status))
       IN IF ~created
          THEN /\ taskResult' = [called EXCEPT !.threw = TRUE]
               /\ UNCHANGED <<tasks, taskEdges, taskSeq>>
          ELSE /\ tasks' = withTask
               /\ taskSeq' = taskSeq + 1
               /\ IF parentTaskId # Undef /\ linked
                  THEN taskEdges' = CreateRelationship(taskEdges,
                                       GetEntityById(withTask, parentTaskId), TRUE,
                                       <<parentTaskId, taskId>>)
                  ELSE UNCHANGED taskEdges
               /\ taskResult' = IF parentTaskId # Undef /\ ~linked
                                THEN [called EXCEPT !.threw = TRUE]
                                ELSE [called EXCEPT !.success = TRUE]
    /\ TaskFrame

\* add_subtask
AddSubtask(parentTaskId, created, linked) ==
    /\ taskSeq < MaxTasks
    /\ LET subtaskId == NewTaskId
           called == [NoTaskResult EXCEPT !.op = "add_subtask",
                                          !.parentTaskId = parentTaskId]
           withTask == CreateEntity(tasks, subtaskId, TaskData("pending"))
       IN IF ~GetEntityById(tasks, parentTaskId)
          THEN /\ taskResult' = called
               /\ UNCHANGED <<tasks, taskEdges, taskSeq>>
          ELSE IF ~created
          THEN /\ taskResult' = [called EXCEPT !.threw = TRUE]
               /\ UNCHANGED <<tasks, taskEdges, taskSeq>>
          ELSE /\ tasks' = withTask
               /\ taskSeq' = taskSeq + 1
               /\ IF linked
                  THEN taskEdges' = CreateRelationship(taskEdges,
                                       GetEntityById(withTask, parentTaskId), TRUE,
                                       <<parentTaskId, subtaskId>>)
                  ELSE UNCHANGED taskEdges
               /\ taskResult' = IF linked
                                THEN [called EXCEPT !.success = TRUE,
                                                    !.taskId = subtaskId]
                                ELSE [called EXCEPT !.threw = TRUE,
                                                    !.taskId = subtaskId]
    /\ TaskFrame

\* update_task
UpdateTask(taskId, status, progress, notes, committed) ==
    /\ LET called == [NoTaskResult EXCEPT !.op = "update_task", !.taskId = taskId]
       IN IF ~committed
          THEN /\ taskResult' = [called EXCEPT !.threw = TRUE]
               /\ UNCHANGED tasks
          ELSE /\ tasks' = UpdateEntity(tasks, taskId,
                                        UpdateData(status, progress, notes, Timestamp))
               /\ taskResult' = [called EXCEPT !.success = GetEntityById(tasks, taskId)]
    /\ UNCHANGED <<taskEdges, taskSeq>>
    /\ TaskFrame

\* complete_task
CompleteTask(taskId, notes, undefinedIsNull, committed) ==
    /\ LET called == [NoTaskResult EXCEPT !.op = "complete_task", !.taskId = taskId]
           properties == CompleteData(notes, Timestamp)
       IN IF ~committed \/ ~ParametersAccepted(properties, undefinedIsNull)
          THEN /\ taskResult' = [called EXCEPT !.threw = TRUE]
               /\ UNCHANGED tasks
          ELSE /\ tasks' = UpdateEntity(tasks, taskId, properties)
               /\ taskResult' = [called EXCEPT !.success = GetEntityById(tasks, taskId)]
    /\ UNCHANGED <<taskEdges, taskSeq>>
    /\ TaskFrame

\* delete_task.  deleted: the subtasks whose deleteEntity transaction
\* commits before one fails, all of them when none fails; committed:
\* the transaction that deletes the task itself commits
DeleteTask(taskId, deleteSubtasks, deleted, committed) ==
    /\ LET subtasks == IF deleteSubtasks THEN OutgoingSubtasks(taskEdges, taskId)
                       ELSE {}
           called == [NoTaskResult EXCEPT !.op = "delete_task", !.taskId = taskId,
                                          !.deleteSubtasks = deleteSubtasks,
                                          !.subtasks = subtasks]
           all == IF deleted = subtasks /\ committed THEN deleted \cup {taskId}
                  ELSE deleted
       IN /\ deleted \subseteq subtasks
          /\ tasks' = DeleteEntities(tasks, all)
          /\ taskEdges' = DetachEdges(taskEdges, all)
          /\ taskResult' = IF deleted = subtasks /\ committed
                           THEN [called EXCEPT !.success = GetEntityById(tasks, taskId)]
                           ELSE [called EXCEPT !.threw = TRUE]
    /\ UNCHANGED taskSeq
    /\ TaskFrame

\* ==================================================================
\* The graph memory sub-server (Neo4jMemoryServer): entities and
\* relationships
\* ==================================================================
\* The graph holds any number of nodes with one label and one id property;
\* the model counts them.  Of the relationships it keeps from which
\* (label, id) to which (label, id) they lead.
MaxCopies == 2

EntityKeys == {<<"Person", "a">>, <<"Person", "b">>, <<"Concept", "a">>}

\* CREATE (e:label {id: $id, ...}) of createEntity
CreateNode(nodes, key) == [nodes EXCEPT ![key] = @ + 1]

\* MATCH (e:label {id: $id}) finds a node
NodeExists(nodes, key) == nodes[key] > 0

\* MATCH (e:label {id: $id}) DETACH DELETE e
DeleteNodes(nodes, key) == [nodes EXCEPT ![key] = 0]

NoEntityResult ==
    [op |-> "none", success |-> FALSE, threw |-> FALSE,
     key |-> <<"", "">>, to |-> <<"", "">>, existed |-> FALSE,
     fromExisted |-> FALSE, toExisted |-> FALSE]

EntityInit ==
    /\ entities = [k \in EntityKeys |-> 0]
    /\ rels = {}
    /\ entityResult = NoEntityResult

EntityFrame ==
    UNCHANGED <<chainVars, omegaVars, now, routerVars, toolVars, taskVars,
                registryVars, queryVars, processVars, callVars,
                validateVars, refreshVars, noteVars, sessionVars,
                teardownVars, subtaskVars>>

\* create_entity.  committed: the write transaction commits
CreateEntityTool(key, committed) ==
    /\ entities[key] < MaxCopies
    /\ LET called == [NoEntityResult EXCEPT !.op = "create_entity", !.key = key,
                                            !.existed = NodeExists(entities, key)]
       IN IF committed
          THEN /\ entities' = CreateNode(entities, key)
               /\ entityResult' = [called EXCEPT !.success = TRUE]
          ELSE /\ UNCHANGED entities
               /\ entityResult' = [called EXCEPT !.threw = TRUE]
    /\ UNCHANGED rels
    /\ EntityFrame

\* delete_entity
DeleteEntityTool(key, committed) ==
    /\ LET called == [NoEntityResult EXCEPT !.op = "delete_entity", !.key = key,
                                            !.existed = NodeExists(entities, key)]
       IN IF committed
          THEN /\ entities' = DeleteNodes(entities, key)
               /\ rels' = DetachEdges(rels, {key})
               /\ entityResult' = [called EXCEPT !.success = NodeExists(entities, key)]
          ELSE /\ UNCHANGED <<entities, rels>>
               /\ entityResult' = [called EXCEPT !.threw = TRUE]
    /\ EntityFrame

\* create_relationship.  hasProps: the properties argument has keys
CreateRelationshipTool(from, to, hasProps, committed) ==
    /\ LET called == [NoEntityResult EXCEPT
                        !.op = "create_relationship", !.key = from, !.to = to,
                        !.fromExisted = NodeExists(entities, from),
                        !.toExisted = NodeExists(entities, to)]
       IN IF committed /\ RelationshipCypherValid(hasProps)
          THEN /\ rels' = CreateRelationship(rels, NodeExists(entities, from),
                                             NodeExists(entities, to), <<from, to>>)
               /\ entityResult' = [called EXCEPT !.success = TRUE]
          ELSE /\ UNCHANGED rels
               /\ entityResult' = [called EXCEPT !.threw = TRUE]
    /\ UNCHANGED entities
    /\ EntityFrame

\* ------------------------------------------------------------------
\* query_graph
\* ------------------------------------------------------------------
MaxDepth == 2

\* the relationships of edges that touch node, whatever their direction
Touching(edges, node) == {e \in edges : e[1] = node \/ e[2] = node}

OtherEnd(e, node) == IF e[1] = node THEN e[2] ELSE e[1]

\* MATCH (start)-[*1..depth]-(connected): the ends of the paths of 1 to
\* depth relationships from node that use no relationship twice
RECURSIVE PathEnds(_, _, _, _)
PathEnds(edges, node, used, depth) ==
    IF depth = 0
    THEN {}
    ELSE UNION {{OtherEnd(e, node)} \cup
                    PathEnds(edges, OtherEnd(e, node), used \cup {e}, depth - 1) :
                e \in Touching(edges, node) \ used}

\* findConnectedEntities(label, id, relationshipPattern, maxDepth = 1):
\* -[]- when maxDepth is 1, -[*1..maxDepth]- otherwise; relationshipPattern
\* is not used
FindConnectedEntities(key, relationshipPattern, maxDepth) ==
    PathEnds(rels, key, {}, maxDepth)

\* the default value of the parameter maxDepth of findConnectedEntities
DefaultMaxDepth == 1

NoQueryResult ==
    [op |-> "none", success |-> FALSE, threw |-> FALSE, key |-> <<"", "">>,
     maxDepth |-> 0, entities |-> {}]

QueryInit == queryResult = NoQueryResult

\* query_graph with pattern 'connected': the handler calls
\* findConnectedEntities(label, id, maxDepth) with three arguments.
\* answered: the read transaction succeeds
QueryGraphTool(key, maxDepth, answered) ==
    /\ LET called == [NoQueryResult EXCEPT !.op = "query_graph", !.key = key,
                                           !.maxDepth = maxDepth]
       IN queryResult' =
              IF answered
              THEN [called EXCEPT
                      !.success = TRUE,
                      !.entities = FindConnectedEntities(key, maxDepth, DefaultMaxDepth)]
              ELSE [called EXCEPT !.threw = TRUE]
    /\ UNCHANGED <<chainVars, omegaVars, now, routerVars, toolVars, taskVars,
                   entityVars, registryVars, processVars, callVars,
                validateVars, refreshVars, noteVars, sessionVars,
                teardownVars, subtaskVars>>

\* ==================================================================
\* The sub-server registry (WanakuClient)
\* ==================================================================
ServerNames == {"memory", "thinking"}
Endpoints == {"http://hub:3000", "http://hub:3001"}
ToolLists == {<<>>, <<"create_entity">>}
Capabilities == {{}, {"tools"}}

\* A JavaScript Map keeps its keys in insertion order: it is a sequence of
\* [key, value] pairs with pairwise distinct keys
ServersHas(map, key) == \E i \in 1 .. Len(map) : map[i].key = key

ServersIndex(map, key) == (CHOOSE i \in 1 .. Len(map) : map[i].key = key)

\* Map.prototype.set: an existing key keeps its place and takes the new value
ServersSet(map, key, value) ==
    IF ServersHas(map, key)
    THEN [map EXCEPT ![ServersIndex(map, key)] = [key |-> key, value |-> value]]
    ELSE Append(map, [key |-> key, value |-> value])

ServersDelete(map, key) == SelectSeq(map, LAMBDA pair : pair.key # key)

\* registerServer: the entry it stores under the name
ServerEntry(endpoint, serverTools, capabilities) ==
    [endpoint |-> endpoint,
     tools |-> serverTools,
     capabilities |-> capabilities,
     registered_at |-> now,
     status |-> "registered"]

NoRegisterResult == [op |-> "none", success |-> FALSE, server |-> None, text |-> None]

RegistryInit ==
    /\ registeredServers = <<>>
    /\ registerResult = NoRegisterResult

RegistryFrame ==
    UNCHANGED <<chainVars, omegaVars, now, routerVars, toolVars, taskVars,
                entityVars, queryVars, processVars, callVars, validateVars,
                refreshVars, noteVars, sessionVars, teardownVars,
                subtaskVars>>

\* registerServer(serverConfig)
RegisterServer(name, endpoint, serverTools, capabilities) ==
    /\ registeredServers' = ServersSet(registeredServers, name,
                                   ServerEntry(endpoint, serverTools, capabilities))
    /\ registerResult' = [op |-> "register", success |-> TRUE, server |-> name,
                          text |-> "registered successfully"]
    /\ RegistryFrame

\* unregisterServer(serverName)
UnregisterServer(serverName) ==
    /\ IF ServersHas(registeredServers, serverName)
       THEN /\ registeredServers' = ServersDelete(registeredServers, serverName)
            /\ registerResult' = [op |-> "unregister", success |-> TRUE,
                                  server |-> serverName,
                                  text |-> "unregistered successfully"]
       ELSE /\ registerResult' = [op |-> "unregister", success |-> FALSE,
                                  server |-> serverName, text |-> "not found"]
            /\ UNCHANGED registeredServers
    /\ RegistryFrame

\* getServer(serverName), for a registered name
GetServer(map, serverName) == map[ServersIndex(map, serverName)].value

\* ==================================================================
\* The reasoning-chain sub-server when calls overlap: a handler runs
\* without interruption up to its next await, and other handlers run
\* while it is suspended there
\* ==================================================================
MaxInflight == 2

CallInit == inflight = {}

CallFrame ==
    UNCHANGED <<omegaVars, now, routerVars, toolVars, taskVars, entityVars,
                registryVars, queryVars, processVars, validateVars,
                refreshVars, noteVars, sessionVars, teardownVars,
                subtaskVars>>

\* an add_step call suspended at await createEntity(...)
AddStepCallAt(chainId, step, at) ==
    [op |-> "add_step", chainId |-> chainId, stepId |-> step.id,
     step_number |-> step.step_number, status |-> None, at |-> at]

\* a conclude call suspended at await updateEntity(...)
ConcludeCallAt(chainId, status) ==
    [op |-> "conclude", chainId |-> chainId, stepId |-> <<0, 0>>,
     step_number |-> 0, status |-> status, at |-> "updateEntity"]

\* add_step from its start to await createEntity(...): the lookup, the
\* numbering and the push
BeginAddStep(chainId, thought) ==
    /\ chainId \in DOMAIN activeChains
    /\ chainStore = "neo4j"
    /\ Cardinality(inflight) < MaxInflight
    /\ LET chain == activeChains[chainId]
           step == [id |-> NewStepId(chainId),
                    step_number |-> NextStepNumber(chain),
                    thought |-> thought]
       IN /\ Len(chain.steps) < MaxSteps
          /\ activeChains' = [activeChains EXCEPT ![chainId] =
                 [chain EXCEPT !.steps = PushStep(chain.steps, step)]]
          /\ inflight' = inflight \cup {AddStepCallAt(chainId, step, "createEntity")}
    /\ UNCHANGED <<chainStore, dbUp, graphChain, graphStep, graphEdges, result>>
    /\ CallFrame

\* add_step from await createEntity(...) to await createRelationship(...),
\* or to its return when createEntity rejects
ResumeCreateEntity(call) ==
    /\ call \in inflight
    /\ call.at = "createEntity"
    /\ IF dbUp
       THEN /\ graphStep' = graphStep \cup
                  {[id |-> call.stepId, step_number |-> call.step_number]}
            /\ inflight' = (inflight \ {call}) \cup
                  {[call EXCEPT !.at = "createRelationship"]}
            /\ UNCHANGED result
       ELSE /\ inflight' = inflight \ {call}
            /\ result' = [op |-> "add_step", success |-> TRUE,
                          chainId |-> call.chainId, n |-> call.step_number]
            /\ UNCHANGED graphStep
    /\ UNCHANGED <<activeChains, chainStore, dbUp, graphChain, graphEdges>>
    /\ CallFrame

\* add_step from await createRelationship(...) to its return
ResumeCreateRelationship(call) ==
    /\ call \in inflight
    /\ call.at = "createRelationship"
    /\ IF dbUp /\ RelationshipCypherValid(TRUE)
       THEN graphEdges' = CreateRelationship(graphEdges,
                call.chainId \in DOMAIN graphChain, TRUE,
                [type |-> "HAS_STEP", from |-> call.chainId,
                 to |-> call.stepId, order |-> call.step_number])
       ELSE UNCHANGED graphEdges
    /\ inflight' = inflight \ {call}
    /\ result' = [op |-> "add_step", success |-> TRUE,
                  chainId |-> call.chainId, n |-> call.step_number]
    /\ UNCHANGED <<activeChains, chainStore, dbUp, graphChain, graphStep>>
    /\ CallFrame

\* conclude from its start to await updateEntity(...)
BeginConclude(chainId, conclusion, success) ==
    /\ chainId \in DOMAIN activeChains
    /\ chainStore = "neo4j"
    /\ Cardinality(inflight) < MaxInflight
    /\ activeChains' = [activeChains EXCEPT ![chainId] =
           [@ EXCEPT !.status = ConcludeStatus(success),
                     !.conclusion = conclusion,
                     !.completed_at = Timestamp]]
    /\ inflight' = inflight \cup {ConcludeCallAt(chainId, ConcludeStatus(success))}
    /\ UNCHANGED <<chainStore, dbUp, graphChain, graphStep, graphEdges, result>>
    /\ CallFrame

\* conclude from await updateEntity(...) to its return
ResumeUpdateEntity(call) ==
    /\ call \in inflight
    /\ call.at = "updateEntity"
    /\ IF dbUp /\ call.chainId \in DOMAIN graphChain
       THEN graphChain' = [graphChain EXCEPT ![call.chainId] =
                [status |-> call.status]]
       ELSE UNCHANGED graphChain
    /\ inflight' = inflight \ {call}
    /\ result' = [op |-> "conclude", success |-> TRUE,
                  chainId |-> call.chainId, n |-> 0]
    /\ UNCHANGED <<activeChains, chainStore, dbUp, graphStep, graphEdges>>
    /\ CallFrame

\* no add_step or conclude call on the chain is suspended
Quiescent(chainId) == \A call \in inflight : call.chainId # chainId

\* ==================================================================
\* The hub process: dispatches and the process-level error handlers
\* (index.js, server.js with graceful-shutdown.js)
\* ==================================================================
MaxDispatches == 3

EntryPoints == {"index.js", "server.js"}

ProcessStart(entry) ==
    [entry |-> entry, state |-> "serving", isShuttingDown |-> FALSE,
     exitCode |-> Undef]

ProcessInit ==
    /\ proc = ProcessStart("index.js")
    /\ served = <<>>

ProcessFrame ==
    UNCHANGED <<chainVars, omegaVars, now, routerVars, toolVars, taskVars,
                entityVars, registryVars, queryVars, callVars,
                validateVars, refreshVars, noteVars, sessionVars,
                teardownVars, subtaskVars>>

\* process.exit(code)
ProcessExit(p, code) == [p EXCEPT !.state = "exited", !.exitCode = code]

\* graceful-shutdown.js: handleShutdown(signal) up to its first await
HandleShutdown(p) ==
    IF p.isShuttingDown
    THEN p
    ELSE [p EXCEPT !.isShuttingDown = TRUE, !.state = "shuttingDown"]

\* index.js: shutdown(signal): server.close(...) is started
Shutdown(p) == [p EXCEPT !.state = "shuttingDown"]

\* process.on('uncaughtException', ...) and
\* process.on('unhandledRejection', ...): index.js exits at once,
\* server.js starts the graceful shutdown
OnUncaught(p) ==
    IF p.entry = "index.js" THEN ProcessExit(p, 1) ELSE HandleShutdown(p)

Fatal == {"unhandledRejection", "uncaughtException"}

\* index.js, ws.on('message', async ...): JSON.parse, the router and
\* ws.send in a try block, ws.send again in its catch block.
\* parses: the data is JSON; handled: the router returns;
\* sendThrows: ws.send raises on this socket
WsOutcome(parses, handled, sendThrows) ==
    IF parses /\ handled /\ ~sendThrows
    THEN "response"
    ELSE IF sendThrows THEN "unhandledRejection" ELSE "errorResponse"

WsMessage(parses, handled, sendThrows) ==
    /\ proc.entry = "index.js"
    /\ proc.state # "exited"
    /\ Len(served) < MaxDispatches
    /\ served' = Append(served, WsOutcome(parses, handled, sendThrows))
    /\ proc' = IF WsOutcome(parses, handled, sendThrows) \in Fatal
               THEN OnUncaught(proc)
               ELSE proc
    /\ ProcessFrame

\* An HTTP request through the Express stack.  thrown: the route raises
\* synchronously, and the error-handling middleware answers 500;
\* listenerThrows: a res.on('finish') listener of server.js raises
HttpOutcome(entry, thrown, listenerThrows) ==
    IF entry = "server.js" /\ listenerThrows
    THEN "uncaughtException"
    ELSE IF thrown THEN "500" ELSE "200"

HttpRequest(thrown, listenerThrows) ==
    /\ proc.state = "serving"
    /\ Len(served) < MaxDispatches
    /\ served' = Append(served, HttpOutcome(proc.entry, thrown, listenerThrows))
    /\ proc' = IF HttpOutcome(proc.entry, thrown, listenerThrows) \in Fatal
               THEN OnUncaught(proc)
               ELSE proc
    /\ ProcessFrame

\* SIGTERM or SIGINT
Signal ==
    /\ proc.state = "serving"
    /\ proc' = IF proc.entry = "index.js" THEN Shutdown(proc) ELSE HandleShutdown(proc)
    /\ UNCHANGED served
    /\ ProcessFrame

\* The shutdown in progress ends: the servers closed (exit code 0), or the
\* forced exit after the timeout (exit code 1)
ShutdownEnds(code) ==
    /\ proc.state = "shuttingDown"
    /\ proc' = ProcessExit(proc, code)
    /\ UNCHANGED served
    /\ ProcessFrame

\* ==================================================================
\* Notebook sub-server: append_note calls that overlap on one file
\* ==================================================================

MaxAppends == 2
AppendIds == 1..MaxAppends
Bodies == {"a", "b"}
Original == <<"o">>

NoAppend == [pc |-> "idle", content |-> "", existing |-> <<>>, outcome |-> "none"]

NoteInit ==
    /\ note = Original
    /\ appendCalls = [c \in AppendIds |-> NoAppend]

NoteFrame ==
    UNCHANGED <<chainVars, omegaVars, now, routerVars, toolVars, taskVars,
                entityVars, registryVars, queryVars, processVars, callVars,
                validateVars, refreshVars, sessionVars, teardownVars,
                subtaskVars>>

\* readLogFile(filename): the file's content at the time of the read
ReadLogFile == note

\* writeMarkdown(filename, updated, {}): replaces the file's content
WriteMarkdown(updated) == updated

\* existing + '\n\n' + content
Updated(existing, content) == Append(existing, content)

\* append_note up to await readLogFile
BeginAppendNote(c, content) ==
    /\ appendCalls[c].pc = "idle"
    /\ appendCalls[c].outcome = "none"
    /\ appendCalls' = [appendCalls EXCEPT ![c] =
                         [NoAppend EXCEPT !.pc = "reading", !.content = content]]
    /\ UNCHANGED note
    /\ NoteFrame

\* append_note from the answer of readLogFile up to await writeMarkdown;
\* a failed read is caught and reported
ResumeReadLogFile(c, readOk) ==
    /\ appendCalls[c].pc = "reading"
    /\ appendCalls' = [appendCalls EXCEPT ![c] =
                         IF readOk
                         THEN [@ EXCEPT !.pc = "writing", !.existing = ReadLogFile]
                         ELSE [@ EXCEPT !.pc = "idle", !.outcome = "error"]]
    /\ UNCHANGED note
    /\ NoteFrame

\* append_note from the answer of writeMarkdown to its return
ResumeWriteMarkdown(c, writeOk) ==
    /\ appendCalls[c].pc = "writing"
    /\ note' = IF writeOk
               THEN WriteMarkdown(Updated(appendCalls[c].existing, appendCalls[c].content))
               ELSE note
    /\ appendCalls' = [appendCalls EXCEPT ![c] =
                         [@ EXCEPT !.pc = "idle",
                                   !.outcome = IF writeOk THEN "success" ELSE "error"]]
    /\ NoteFrame

\* ==================================================================
\* Graph client: sessions of transactions and health probes
\* ==================================================================

MaxDbCalls == 2
DbCallIds == 1..MaxDbCalls
TransactionKinds == {"read", "write"}

NoDbCall == [op |-> "none", pc |-> "idle", session |-> "none",
             pending |-> "none", outcome |-> "none"]

\* let driver = null; let isConnected = false
SessionInit ==
    /\ driver = FALSE
    /\ isConnected = FALSE
    /\ dbCalls = [c \in DbCallIds |-> NoDbCall]

SessionFrame ==
    UNCHANGED <<chainVars, omegaVars, now, routerVars, toolVars, taskVars,
                entityVars, registryVars, queryVars, processVars, callVars,
                validateVars, refreshVars, noteVars, teardownVars,
                subtaskVars>>

\* initializeNeo4j(): neo4j.driver(...) returns the driver, or throws and
\* leaves the previous one in place
InitializeNeo4j(built) ==
    /\ driver' = (driver \/ built)
    /\ isConnected' = built
    /\ UNCHANGED dbCalls
    /\ SessionFrame

\* a call slot can start a new call when the previous one has returned; a
\* slot whose session was left open keeps it on record
CanBegin(c) == dbCalls[c].pc = "idle" /\ dbCalls[c].session # "open"

\* a finally block that returns without closing the session
SessionCloseSkipped(call) ==
    [call EXCEPT !.pc = "idle", !.outcome = call.pending]

\* finally { await session.close() }, then the pending return or throw
SessionClose(call) ==
    [call EXCEPT !.pc = "idle", !.session = "closed", !.outcome = call.pending]

\* executeWriteTransaction / executeReadTransaction up to
\* await session.writeTransaction / readTransaction; getSession throws
\* when there is no driver
BeginTransaction(c, kind) ==
    /\ CanBegin(c)
    /\ dbCalls' = [dbCalls EXCEPT ![c] =
                     IF driver
                     THEN [NoDbCall EXCEPT !.op = kind, !.pc = "transaction",
                                           !.session = "open"]
                     ELSE [NoDbCall EXCEPT !.op = kind, !.outcome = "throw"]]
    /\ UNCHANGED <<driver, isConnected>>
    /\ SessionFrame

\* the transaction function returned or threw: on to the finally block
ResumeTransaction(c, committed) ==
    /\ dbCalls[c].pc = "transaction"
    /\ dbCalls' = [dbCalls EXCEPT ![c] =
                     [@ EXCEPT !.pc = "closing",
                               !.pending = IF committed THEN "result" ELSE "throw"]]
    /\ UNCHANGED <<driver, isConnected>>
    /\ SessionFrame

\* await session.close() answered
ResumeClose(c) ==
    /\ dbCalls[c].pc = "closing"
    /\ dbCalls' = [dbCalls EXCEPT ![c] = SessionClose(@)]
    /\ UNCHANGED <<driver, isConnected>>
    /\ SessionFrame

\* checkHealth up to await session.run('RETURN 1 AS num')
BeginCheckHealth(c) ==
    /\ CanBegin(c)
    /\ dbCalls' = [dbCalls EXCEPT ![c] =
                     IF driver
                     THEN [NoDbCall EXCEPT !.op = "health", !.pc = "run",
                                           !.session = "open"]
                     ELSE [NoDbCall EXCEPT !.op = "health", !.outcome = "unhealthy"]]
    /\ UNCHANGED <<driver, isConnected>>
    /\ SessionFrame

\* checkHealth after session.run: on success await session.close(), on
\* failure the catch block marks the connection down and returns
ResumeCheckHealth(c, runOk) ==
    /\ dbCalls[c].pc = "run"
    /\ dbCalls' = [dbCalls EXCEPT ![c] =
                     IF runOk
                     THEN [@ EXCEPT !.pc = "closing", !.pending = "healthy"]
                     ELSE [@ EXCEPT !.pc = "idle", !.outcome = "unhealthy"]]
    /\ isConnected' = IF runOk THEN isConnected ELSE FALSE
    /\ UNCHANGED driver
    /\ SessionFrame

\* ==================================================================
\* Graceful shutdown (graceful-shutdown.js, used by server.js)
\* ==================================================================

MaxTriggers == 3
SHUTDOWN_TIMEOUT == 30000

\* the registered shutdownCallbacks, by name, in registration order
ShutdownCallbacks == <<"http-server", "neo4j">>
CallbackNames == {ShutdownCallbacks[i] : i \in DOMAIN ShutdownCallbacks}

ShutdownTriggers == {"SIGTERM", "SIGINT", "uncaughtException", "unhandledRejection"}

TeardownInit ==
    /\ teardown = [invoked |-> [cb \in CallbackNames |-> 0],
                   settled |-> [cb \in CallbackNames |-> "no"],
                   timer |-> "unset"]
    /\ triggers = <<>>

TeardownFrame ==
    /\ UNCHANGED served
    /\ UNCHANGED <<chainVars, omegaVars, now, routerVars, toolVars, taskVars,
                   entityVars, registryVars, queryVars, callVars,
                   validateVars, refreshVars, noteVars, sessionVars,
                   subtaskVars>>

\* a handleShutdown that starts a shutdown on every trigger
StartsShutdownAlways(p) == TRUE

\* if (isShuttingDown) { warn; return }
StartsShutdown(p) == ~p.isShuttingDown

\* a shutdown without the forced-exit timer
NoTimer == "unset"

\* setTimeout(() => process.exit(1), SHUTDOWN_TIMEOUT)
ArmTimer == "armed"

\* shutdownCallbacks.map(({callback}) => callback()): every callback is
\* started, or the first one raises before returning a promise
InvokeCallbacks(t, raises) ==
    [t EXCEPT !.invoked = [cb \in CallbackNames |->
                             IF raises /\ cb # ShutdownCallbacks[1]
                             THEN @[cb]
                             ELSE @[cb] + 1]]

AllSettled(t) == \A cb \in CallbackNames : t.settled[cb] # "no"

\* handleShutdown(signal) up to await Promise.allSettled(...); when a
\* callback raises, the catch block clears the timer and exits with 1
ShutdownTrigger(signal, raises) ==
    /\ proc.entry = "server.js"
    /\ proc.state # "exited"
    /\ Len(triggers) < MaxTriggers
    /\ triggers' = Append(triggers, signal)
    /\ IF StartsShutdown(proc)
       THEN IF raises
            THEN /\ proc' = ProcessExit(HandleShutdown(proc), 1)
                 /\ teardown' = [InvokeCallbacks(teardown, TRUE) EXCEPT !.timer = "cleared"]
            ELSE /\ proc' = HandleShutdown(proc)
                 /\ teardown' = [InvokeCallbacks(teardown, FALSE) EXCEPT !.timer = ArmTimer]
       ELSE UNCHANGED <<proc, teardown>>
    /\ TeardownFrame

\* One callback's promise settles.  When it is the last one,
\* Promise.allSettled resolves and handleShutdown resumes in the same
\* turn of the event loop: clearTimeout, process.exit(0)
CallbackSettles(cb, fulfilled) ==
    /\ proc.state = "shuttingDown"
    /\ teardown.invoked[cb] > 0
    /\ teardown.settled[cb] = "no"
    /\ LET t == [teardown EXCEPT !.settled[cb] =
                    IF fulfilled THEN "fulfilled" ELSE "rejected"]
       IN  IF AllSettled(t)
           THEN /\ teardown' = [t EXCEPT !.timer = "cleared"]
                /\ proc' = ProcessExit(proc, 0)
           ELSE /\ teardown' = t
                /\ UNCHANGED proc
    /\ UNCHANGED triggers
    /\ TeardownFrame

\* the timer set by handleShutdown fires: process.exit(1)
ShutdownTimeout ==
    /\ proc.state # "exited"
    /\ teardown.timer = "armed"
    /\ teardown' = [teardown EXCEPT !.timer = "fired"]
    /\ proc' = ProcessExit(proc, 1)
    /\ UNCHANGED triggers
    /\ TeardownFrame

\* ==================================================================
\* Task sub-server: add_subtask calls that overlap with other calls
\* ==================================================================

MaxPendingSubtasks == 2

PendingInit == pendingSubtasks = {}

SubtaskFrame ==
    UNCHANGED <<chainVars, omegaVars, now, routerVars, toolVars, entityVars,
                registryVars, queryVars, processVars, callVars,
                validateVars, refreshVars, noteVars, sessionVars,
                teardownVars>>

\* an add_subtask call suspended at await createEntity or at
\* await createRelationship
SubtaskCallAt(parentTaskId, subtaskId, at) ==
    [parentTaskId |-> parentTaskId, subtaskId |-> subtaskId, at |-> at]

\* add_subtask from its call to await createEntity: the parent is looked
\* up, the subtask's id is drawn
BeginAddSubtask(parentTaskId) ==
    /\ LET called == [NoTaskResult EXCEPT !.op = "add_subtask",
                                          !.parentTaskId = parentTaskId]
       IN IF ~GetEntityById(tasks, parentTaskId)
          THEN /\ taskResult' = called
               /\ UNCHANGED <<taskSeq, pendingSubtasks>>
          ELSE /\ taskSeq < MaxTasks
               /\ Cardinality(pendingSubtasks) < MaxPendingSubtasks
               /\ taskSeq' = taskSeq + 1
               /\ pendingSubtasks' = pendingSubtasks \cup
                      {SubtaskCallAt(parentTaskId, NewTaskId, "createEntity")}
               /\ UNCHANGED taskResult
    /\ UNCHANGED <<tasks, taskEdges>>
    /\ SubtaskFrame

\* add_subtask from the answer of createEntity to await createRelationship
ResumeCreateSubtask(call, created) ==
    /\ call \in pendingSubtasks
    /\ call.at = "createEntity"
    /\ IF created
       THEN /\ tasks' = CreateEntity(tasks, call.subtaskId, TaskData("pending"))
            /\ pendingSubtasks' = (pendingSubtasks \ {call}) \cup
                   {SubtaskCallAt(call.parentTaskId, call.subtaskId, "createRelationship")}
            /\ UNCHANGED taskResult
       ELSE /\ pendingSubtasks' = pendingSubtasks \ {call}
            /\ taskResult' = [NoTaskResult EXCEPT !.op = "add_subtask",
                                 !.parentTaskId = call.parentTaskId, !.threw = TRUE]
            /\ UNCHANGED tasks
    /\ UNCHANGED <<taskEdges, taskSeq>>
    /\ SubtaskFrame

\* add_subtask from the answer of createRelationship to its return
ResumeLinkSubtask(call, linked) ==
    /\ call \in pendingSubtasks
    /\ call.at = "createRelationship"
    /\ pendingSubtasks' = pendingSubtasks \ {call}
    /\ taskEdges' = IF linked
                    THEN CreateRelationship(taskEdges,
                             GetEntityById(tasks, call.parentTaskId),
                             GetEntityById(tasks, call.subtaskId),
                             <<call.parentTaskId, call.subtaskId>>)
                    ELSE taskEdges
    /\ taskResult' = [NoTaskResult EXCEPT !.op = "add_subtask",
                         !.parentTaskId = call.parentTaskId,
                         !.taskId = call.subtaskId,
                         !.success = linked, !.threw = ~linked]
    /\ UNCHANGED <<tasks, taskSeq>>
    /\ SubtaskFrame

\* the state of the other sub-servers when a specification leaves them idle
ExtInit ==
    /\ RouterInit
    /\ runtimeModels = {}
    /\ ToolInit
    /\ TaskInit
    /\ EntityInit
    /\ RegistryInit
    /\ QueryInit
    /\ ProcessInit
    /\ CallInit
    /\ ValidateInit
    /\ RefreshInit
    /\ NoteInit
    /\ SessionInit
    /\ TeardownInit
    /\ PendingInit

\* ==================================================================
\* Specifications
\* ==================================================================

\* The reasoning-chain sub-server under any sequence of tool calls
ChainSpecInit ==
    /\ ChainInit
    /\ now = 0
    /\ OmegaInit
    /\ omegaConfig = DefaultOmegaConfig
    /\ ExtInit

ChainNext ==
    \/ Tick
    \/ StartThinkingCall
    \/ AddStepCall
    \/ ConcludeCall
    \/ BranchChainCall

ChainSpec == ChainSpecInit /\ [][ChainNext]_vars

\* The sub-server when no client calls conclude.  None of these handlers
\* stores a timestamp in a field another handler reads, so the clock stands
StepNext ==
    \/ StartThinkingCall
    \/ AddStepCall
    \/ BranchChainCall

StepSpec == ChainSpecInit /\ [][StepNext]_vars

\* The governance wrapper under any sequence of wrapped tool calls, for
\* every setting of the two environment variables
OmegaSpecInit ==
    /\ OmegaInit
    /\ now = 0
    /\ ChainInit
    /\ chainStore = "neo4j"
    /\ dbUp
    /\ ExtInit

WrappedMcpCallPreStep ==
    \E server \in Servers, toolName \in ToolNames,
       mkdirOk \in BOOLEAN, writeOk \in BOOLEAN, errWriteOk \in BOOLEAN :
        WrappedMcpCallPre(server, toolName, mkdirOk, writeOk, errWriteOk)

WrappedMcpCallToolStep ==
    \E toolOk \in BOOLEAN, errWriteOk \in BOOLEAN :
        WrappedMcpCallTool(toolOk, errWriteOk)

WrappedMcpCallPostStep ==
    \E writeOk \in BOOLEAN : WrappedMcpCallPost(writeOk)

OmegaNext ==
    \/ Tick
    \/ WrappedMcpCallPreStep
    \/ WrappedMcpCallToolStep
    \/ WrappedMcpCallPostStep

OmegaSpec == OmegaSpecInit /\ [][OmegaNext]_vars

\* The model router under any sequence of routed requests and overrides
RouterSpecInit ==
    /\ RouterInit
    /\ EntityInit
    /\ ToolInit
    /\ TaskInit
    /\ now = 0
    /\ ChainInit
    /\ chainStore = "neo4j"
    /\ dbUp
    /\ OmegaInit
    /\ omegaConfig = DefaultOmegaConfig
    /\ RegistryInit
    /\ QueryInit
    /\ ProcessInit
    /\ CallInit
    /\ ValidateInit
    /\ RefreshInit
    /\ NoteInit
    /\ SessionInit
    /\ TeardownInit
    /\ PendingInit

SetDefaultModelCall ==
    \E taskType \in TaskTypes, model \in {Qwq, LlamaLatest} :
        SetDefaultModel(taskType, model)

RouteRequestCall ==
    \E taskType \in TaskTypes, options \in RouteOptions, listOk \in BOOLEAN :
        RouteRequest(taskType, options, listOk)

ExecuteWithRetryStep ==
    \E answer \in RuntimeAnswers(RequestModel(req.selectedModel, req.opts)) :
        ExecuteWithRetry(answer)

RouterNext ==
    \/ Tick
    \/ SetDefaultModelCall
    \/ RouteRequestCall
    \/ ExecuteWithRetryStep

RouterSpec == RouterSpecInit /\ [][RouterNext]_vars

\* One sub-server's registry under any registrations and tool calls
ToolSpecInit ==
    /\ ToolInit
    /\ EntityInit
    /\ TaskInit
    /\ now = 0
    /\ ChainInit
    /\ chainStore = "neo4j"
    /\ dbUp
    /\ OmegaInit
    /\ omegaConfig = DefaultOmegaConfig
    /\ RouterInit
    /\ runtimeModels = {}
    /\ RegistryInit
    /\ QueryInit
    /\ ProcessInit
    /\ CallInit
    /\ ValidateInit
    /\ RefreshInit
    /\ NoteInit
    /\ SessionInit
    /\ TeardownInit
    /\ PendingInit

RegisterToolCall ==
    \E name \in RegistryNames, required \in SUBSET ArgFields, complete \in BOOLEAN :
        RegisterTool(name, required, complete)

CallToolCall ==
    \E name \in CallNames, args \in SUBSET ArgFields, outcome \in HandlerOutcomes :
        CallTool(name, args, outcome)

ToolNext ==
    \/ RegisterToolCall
    \/ CallToolCall

ToolSpec == ToolSpecInit /\ [][ToolNext]_vars

\* The task sub-server when tasks are created, updated and completed.  The
\* only timestamp the model keeps is completed_at, which no handler reads,
\* so the clock stands
TaskSpecInit ==
    /\ TaskInit
    /\ EntityInit
    /\ now = 0
    /\ ChainInit
    /\ chainStore = "neo4j"
    /\ dbUp
    /\ OmegaInit
    /\ omegaConfig = DefaultOmegaConfig
    /\ RouterInit
    /\ runtimeModels = {}
    /\ ToolInit
    /\ RegistryInit
    /\ QueryInit
    /\ ProcessInit
    /\ CallInit
    /\ ValidateInit
    /\ RefreshInit
    /\ NoteInit
    /\ SessionInit
    /\ TeardownInit
    /\ PendingInit

CreateTaskCall ==
    \E status \in CreateStatuses,
       parentTaskId \in ({Undef} \cup TaskIds) \ {NewTaskId},
       created \in BOOLEAN, linked \in BOOLEAN :
        CreateTask(status, parentTaskId, created, linked)

AddSubtaskCall ==
    \E parentTaskId \in TaskIds, created \in BOOLEAN, linked \in BOOLEAN :
        AddSubtask(parentTaskId, created, linked)

UpdateTaskCall ==
    \E taskId \in TaskIds, status \in UpdateStatuses, progress \in Progresses,
       notes \in Results, committed \in BOOLEAN :
        UpdateTask(taskId, status, progress, notes, committed)

CompleteTaskCall ==
    \E taskId \in TaskIds, notes \in Results,
       undefinedIsNull \in BOOLEAN, committed \in BOOLEAN :
        CompleteTask(taskId, notes, undefinedIsNull, committed)

DeleteTaskCall ==
    \E taskId \in TaskIds, deleteSubtasks \in BOOLEAN,
       deleted \in SUBSET TaskIds, committed \in BOOLEAN :
        DeleteTask(taskId, deleteSubtasks, deleted, committed)

TaskNext ==
    \/ CreateTaskCall
    \/ AddSubtaskCall
    \/ UpdateTaskCall
    \/ CompleteTaskCall

TaskSpec == TaskSpecInit /\ [][TaskNext]_vars

\* The task sub-server when tasks are only created and deleted
SubtaskNext ==
    \/ CreateTaskCall
    \/ AddSubtaskCall
    \/ DeleteTaskCall

SubtaskSpec == TaskSpecInit /\ [][SubtaskNext]_vars

\* The graph memory sub-server under any sequence of entity and
\* relationship tool calls
EntitySpecInit ==
    /\ EntityInit
    /\ now = 0
    /\ ChainInit
    /\ chainStore = "neo4j"
    /\ dbUp
    /\ OmegaInit
    /\ omegaConfig = DefaultOmegaConfig
    /\ RouterInit
    /\ runtimeModels = {}
    /\ ToolInit
    /\ TaskInit
    /\ RegistryInit
    /\ QueryInit
    /\ ProcessInit
    /\ CallInit
    /\ ValidateInit
    /\ RefreshInit
    /\ NoteInit
    /\ SessionInit
    /\ TeardownInit
    /\ PendingInit

CreateEntityCall ==
    \E key \in EntityKeys, committed \in BOOLEAN : CreateEntityTool(key, committed)

DeleteEntityCall ==
    \E key \in EntityKeys, committed \in BOOLEAN : DeleteEntityTool(key, committed)

CreateRelationshipCall ==
    \E from \in EntityKeys, to \in EntityKeys,
       hasProps \in BOOLEAN, committed \in BOOLEAN :
        from # to /\ CreateRelationshipTool(from, to, hasProps, committed)

EntityNext ==
    \/ CreateEntityCall
    \/ DeleteEntityCall
    \/ CreateRelationshipCall

EntitySpec == EntitySpecInit /\ [][EntityNext]_vars

\* The graph memory sub-server when clients build a graph and query it
QueryGraphCall ==
    \E key \in EntityKeys, maxDepth \in 1 .. MaxDepth, answered \in BOOLEAN :
        QueryGraphTool(key, maxDepth, answered)

QueryNext ==
    \/ CreateEntityCall
    \/ CreateRelationshipCall
    \/ QueryGraphCall

QuerySpec == EntitySpecInit /\ [][QueryNext]_vars

\* The sub-server registry under any sequence of registrations and
\* unregistrations
RegistrySpecInit ==
    /\ RegistryInit
    /\ now = 0
    /\ ChainInit
    /\ chainStore = "neo4j"
    /\ dbUp
    /\ OmegaInit
    /\ omegaConfig = DefaultOmegaConfig
    /\ RouterInit
    /\ runtimeModels = {}
    /\ ToolInit
    /\ TaskInit
    /\ EntityInit
    /\ QueryInit
    /\ ProcessInit
    /\ CallInit
    /\ ValidateInit
    /\ RefreshInit
    /\ NoteInit
    /\ SessionInit
    /\ TeardownInit
    /\ PendingInit

RegisterServerCall ==
    \E name \in ServerNames, endpoint \in Endpoints,
       serverTools \in ToolLists, capabilities \in Capabilities :
        RegisterServer(name, endpoint, serverTools, capabilities)

UnregisterServerCall ==
    \E serverName \in ServerNames : UnregisterServer(serverName)

RegistryNext ==
    \/ Tick
    \/ RegisterServerCall
    \/ UnregisterServerCall

RegistrySpec == RegistrySpecInit /\ [][RegistryNext]_vars

\* The hub process, started from either entry point, under any sequence
\* of dispatches and signals
ProcessSpecInit ==
    /\ \E entry \in EntryPoints : proc = ProcessStart(entry)
    /\ served = <<>>
    /\ now = 0
    /\ ChainInit
    /\ chainStore = "neo4j"
    /\ dbUp
    /\ OmegaInit
    /\ omegaConfig = DefaultOmegaConfig
    /\ RouterInit
    /\ runtimeModels = {}
    /\ ToolInit
    /\ TaskInit
    /\ EntityInit
    /\ RegistryInit
    /\ QueryInit
    /\ CallInit
    /\ ValidateInit
    /\ RefreshInit
    /\ NoteInit
    /\ SessionInit
    /\ TeardownInit
    /\ PendingInit

WsMessageCall ==
    \E parses \in BOOLEAN, handled \in BOOLEAN, sendThrows \in BOOLEAN :
        WsMessage(parses, handled, sendThrows)

HttpRequestCall ==
    \E thrown \in BOOLEAN, listenerThrows \in BOOLEAN :
        HttpRequest(thrown, listenerThrows)

ShutdownEndsStep == \E code \in {0, 1} : ShutdownEnds(code)

ProcessNext ==
    \/ WsMessageCall
    \/ HttpRequestCall
    \/ Signal
    \/ ShutdownEndsStep

ProcessSpec == ProcessSpecInit /\ [][ProcessNext]_vars

\* The reasoning-chain sub-server, chains kept in the graph, when add_step
\* and conclude calls overlap
ConcurrentSpecInit ==
    /\ ChainInit
    /\ chainStore = "neo4j"
    /\ CallInit
    /\ now = 0
    /\ OmegaInit
    /\ omegaConfig = DefaultOmegaConfig
    /\ RouterInit
    /\ runtimeModels = {}
    /\ ToolInit
    /\ TaskInit
    /\ EntityInit
    /\ RegistryInit
    /\ QueryInit
    /\ ProcessInit
    /\ ValidateInit
    /\ RefreshInit
    /\ NoteInit
    /\ SessionInit
    /\ TeardownInit
    /\ PendingInit

\* the thought and the conclusion play no part in the numbering or in the
\* status: one value of each
BeginAddStepCall ==
    \E c \in ChainIds : BeginAddStep(c, "t1")

BeginConcludeCall ==
    \E c \in ChainIds, s \in BOOLEAN : BeginConclude(c, "A", s)

ResumeCreateEntityStep == \E call \in inflight : ResumeCreateEntity(call)

ResumeCreateRelationshipStep == \E call \in inflight : ResumeCreateRelationship(call)

ResumeUpdateEntityStep == \E call \in inflight : ResumeUpdateEntity(call)

ConcurrentNext ==
    \/ StartThinkingCall
    \/ BeginAddStepCall
    \/ BeginConcludeCall
    \/ ResumeCreateEntityStep
    \/ ResumeCreateRelationshipStep
    \/ ResumeUpdateEntityStep

ConcurrentSpec == ConcurrentSpecInit /\ [][ConcurrentNext]_vars

\* validateLogFormat, under the default configuration, on any record
ValidateSpecInit ==
    /\ candidate \in Records
    /\ verdict = NoValidation
    /\ now = 0
    /\ ChainInit
    /\ chainStore = "neo4j"
    /\ dbUp
    /\ OmegaInit
    /\ omegaConfig = DefaultOmegaConfig
    /\ RouterInit
    /\ runtimeModels = {}
    /\ ToolInit
    /\ TaskInit
    /\ EntityInit
    /\ RegistryInit
    /\ QueryInit
    /\ ProcessInit
    /\ CallInit
    /\ RefreshInit
    /\ NoteInit
    /\ SessionInit
    /\ TeardownInit
    /\ PendingInit

ValidateNext == ValidateLogFormatCall

ValidateSpec == ValidateSpecInit /\ [][ValidateNext]_vars

\* The inventory cache under overlapping getAvailableModels calls
RefreshSpecInit ==
    /\ RouterInit
    /\ RefreshInit
    /\ now = 0
    /\ ChainInit
    /\ chainStore = "neo4j"
    /\ dbUp
    /\ OmegaInit
    /\ omegaConfig = DefaultOmegaConfig
    /\ ToolInit
    /\ TaskInit
    /\ EntityInit
    /\ RegistryInit
    /\ QueryInit
    /\ ProcessInit
    /\ CallInit
    /\ ValidateInit
    /\ NoteInit
    /\ SessionInit
    /\ TeardownInit
    /\ PendingInit

BeginGetAvailableModelsCall ==
    \E forceRefresh \in BOOLEAN : BeginGetAvailableModels(forceRefresh)

ResumeRefreshStep == \E listOk \in BOOLEAN : ResumeRefresh(listOk)

RefreshNext ==
    \/ Tick
    \/ BeginGetAvailableModelsCall
    \/ ResumeRefreshStep

RefreshSpec == RefreshSpecInit /\ [][RefreshNext]_vars

\* ------------------------------------------------------------------
\* Specification of overlapping append_note calls on one file
\* ------------------------------------------------------------------

NoteSpecInit ==
    /\ ExtInit
    /\ now = 0
    /\ ChainInit
    /\ chainStore = "neo4j"
    /\ dbUp
    /\ OmegaInit
    /\ omegaConfig = DefaultOmegaConfig

BeginAppendNoteCall ==
    \E c \in AppendIds, content \in Bodies : BeginAppendNote(c, content)

ResumeReadLogFileStep ==
    \E c \in AppendIds, readOk \in BOOLEAN : ResumeReadLogFile(c, readOk)

ResumeWriteMarkdownStep ==
    \E c \in AppendIds, writeOk \in BOOLEAN : ResumeWriteMarkdown(c, writeOk)

NoteNext ==
    \/ BeginAppendNoteCall
    \/ ResumeReadLogFileStep
    \/ ResumeWriteMarkdownStep

NoteSpec == NoteSpecInit /\ [][NoteNext]_vars

\* ------------------------------------------------------------------
\* Specification of the graph client's sessions
\* ------------------------------------------------------------------

SessionSpecInit ==
    /\ RouterInit
    /\ runtimeModels = {}
    /\ ToolInit
    /\ TaskInit
    /\ EntityInit
    /\ RegistryInit
    /\ QueryInit
    /\ ProcessInit
    /\ CallInit
    /\ ValidateInit
    /\ RefreshInit
    /\ NoteInit
    /\ SessionInit
    /\ now = 0
    /\ ChainInit
    /\ chainStore = "neo4j"
    /\ dbUp
    /\ OmegaInit
    /\ omegaConfig = DefaultOmegaConfig
    /\ TeardownInit
    /\ PendingInit

InitializeNeo4jCall == \E built \in BOOLEAN : InitializeNeo4j(built)

BeginTransactionCall ==
    \E c \in DbCallIds, kind \in TransactionKinds : BeginTransaction(c, kind)

ResumeTransactionStep ==
    \E c \in DbCallIds, committed \in BOOLEAN : ResumeTransaction(c, committed)

ResumeCloseStep == \E c \in DbCallIds : ResumeClose(c)

BeginCheckHealthCall == \E c \in DbCallIds : BeginCheckHealth(c)

ResumeCheckHealthStep ==
    \E c \in DbCallIds, runOk \in BOOLEAN : ResumeCheckHealth(c, runOk)

SessionNext ==
    \/ InitializeNeo4jCall
    \/ BeginTransactionCall
    \/ ResumeTransactionStep
    \/ ResumeCloseStep
    \/ BeginCheckHealthCall
    \/ ResumeCheckHealthStep

SessionSpec == SessionSpecInit /\ [][SessionNext]_vars

\* ------------------------------------------------------------------
\* Specifications of the graceful shutdown of server.js
\* ------------------------------------------------------------------

ShutdownSpecInit ==
    /\ RouterInit
    /\ runtimeModels = {}
    /\ ToolInit
    /\ TaskInit
    /\ EntityInit
    /\ RegistryInit
    /\ QueryInit
    /\ proc = ProcessStart("server.js")
    /\ served = <<>>
    /\ CallInit
    /\ ValidateInit
    /\ RefreshInit
    /\ NoteInit
    /\ SessionInit
    /\ TeardownInit
    /\ now = 0
    /\ ChainInit
    /\ chainStore = "neo4j"
    /\ dbUp
    /\ OmegaInit
    /\ omegaConfig = DefaultOmegaConfig
    /\ PendingInit

ShutdownTriggerEvent ==
    \E signal \in ShutdownTriggers, raises \in BOOLEAN :
        ShutdownTrigger(signal, raises)

CallbackSettlesStep ==
    \E cb \in CallbackNames, fulfilled \in BOOLEAN : CallbackSettles(cb, fulfilled)

ShutdownNext ==
    \/ ShutdownTriggerEvent
    \/ CallbackSettlesStep
    \/ ShutdownTimeout

ShutdownSpec == ShutdownSpecInit /\ [][ShutdownNext]_vars

\* The event loop runs a timer that is due; nothing obliges a callback's
\* promise ever to settle, nor a signal ever to arrive
FairShutdownSpec == ShutdownSpec /\ WF_vars(ShutdownTimeout)

\* ------------------------------------------------------------------
\* Specification of add_subtask calls overlapping with create_task and
\* delete_task
\* ------------------------------------------------------------------

BeginAddSubtaskCall == \E parentTaskId \in TaskIds : BeginAddSubtask(parentTaskId)

ResumeCreateSubtaskStep ==
    \E call \in pendingSubtasks, created \in BOOLEAN :
        ResumeCreateSubtask(call, created)

ResumeLinkSubtaskStep ==
    \E call \in pendingSubtasks, linked \in BOOLEAN :
        ResumeLinkSubtask(call, linked)

OverlapNext ==
    \/ CreateTaskCall
    \/ DeleteTaskCall
    \/ BeginAddSubtaskCall
    \/ ResumeCreateSubtaskStep
    \/ ResumeLinkSubtaskStep

OverlapSpec == TaskSpecInit /\ [][OverlapNext]_vars

\* ==================================================================
\* Properties of the reasoning-chain sub-server
\* ==================================================================

IsTerminal(c) == c \in DOMAIN activeChains /\ activeChains[c].status \in Terminal

\* C1: add_step on a chain whose status is completed or failed is
\* rejected (success = false) and leaves the chain's step list unchanged,
\* for every terminal chain and every thought.
C1_AddStepOnTerminalRejected ==
    [][\A c \in ChainIds, th \in Thoughts :
          (IsTerminal(c) /\ AddStep(c, th))
              => /\ result'.success = FALSE
                 /\ activeChains'[c].steps = activeChains[c].steps]_vars

\* C2: once a chain's status is completed or failed, no later call
\* changes that chain's status or its completed_at.
C2_TerminalIsIrreversible ==
    [][\A c \in ChainIds :
          IsTerminal(c)
              => /\ activeChains'[c].status = activeChains[c].status
                 /\ activeChains'[c].completed_at = activeChains[c].completed_at]_vars

\* C3 (state part): the step_numbers of every chain are exactly 1..N in
\* order, with no gap and no duplicate.
StepNumbersContiguous ==
    \A c \in DOMAIN activeChains :
        \A i \in 1 .. Len(activeChains[c].steps) :
            activeChains[c].steps[i].step_number = i

\* C3 (step part): a successful add_step raises the chain's step count by
\* exactly one and numbers the new step (previous count + 1)
AddStepAppendsOne ==
    \A c \in ChainIds, th \in Thoughts :
        (c \in DOMAIN activeChains /\ AddStep(c, th))
            => LET before == activeChains[c].steps
                   after == activeChains'[c].steps
               IN  /\ result'.success
                   /\ Len(after) = Len(before) + 1
                   /\ after[Len(after)].step_number = Len(before) + 1
                   /\ result'.n = Len(before) + 1

\* C3 (frame part): no call alters a step that a chain already has
StepsAreNeverAltered ==
    \A c \in DOMAIN activeChains :
        /\ Len(activeChains'[c].steps) >= Len(activeChains[c].steps)
        /\ \A i \in 1 .. Len(activeChains[c].steps) :
               activeChains'[c].steps[i] = activeChains[c].steps[i]

\* C3: after any sequence of start_thinking, add_step and branch_chain
\* calls the step_numbers of every chain are exactly 1..N; each successful
\* add_step adds exactly one step, numbered (previous count + 1), and no
\* earlier step is altered.
C3_StepNumbering ==
    /\ []StepNumbersContiguous
    /\ [][AddStepAppendsOne /\ StepsAreNeverAltered]_vars

\* C3 witness: add_step has just given a branch, which started with a
\* copied step, its second step
C3_Witness ==
    /\ result.op = "add_step" /\ result.success /\ result.n = 2
    /\ result.chainId \in DOMAIN activeChains
    /\ activeChains[result.chainId].branch_from \in DOMAIN activeChains
    /\ Len(activeChains[result.chainId].steps) = 2
    /\ activeChains[result.chainId].steps[1].id[1] # result.chainId

\* C4: conclude on an already terminal chain is idempotent: with the
\* same conclusion and success flag it returns success, with another
\* conclusion or flag it is rejected, and either way the chain is left
\* unchanged.
C4_ConcludeIdempotent ==
    [][\A c \in ChainIds, k \in Conclusions, s \in BOOLEAN :
          (IsTerminal(c) /\ Conclude(c, k, s))
              => /\ activeChains'[c] = activeChains[c]
                 /\ result'.success =
                        (/\ k = activeChains[c].conclusion
                         /\ ConcludeStatus(s) = activeChains[c].status)]_vars

\* C5 (branch part): for a parent with N steps and at_step omitted or in
\* 0..N, branch_chain creates an in_progress chain holding exactly the
\* parent's steps 1..at_step (all N when omitted) and leaves the parent
\* as it was
BranchCopiesPrefix ==
    \A c \in ChainIds, a \in AtSteps :
        (/\ c \in DOMAIN activeChains
         /\ a <= Len(activeChains[c].steps)
         /\ BranchChain(c, a))
            => LET parent == activeChains[c]
                   upto == IF a = Undef THEN Len(parent.steps) ELSE a
                   branch == activeChains'[NewChainId]
               IN  /\ result'.success
                   /\ branch.status = "in_progress"
                   /\ branch.steps = SubSeq(parent.steps, 1, upto)
                   /\ activeChains'[c] = parent

\* C5 (isolation part): add_step on one chain changes no other chain
AddStepTouchesOneChain ==
    \A c \in ChainIds, th \in Thoughts :
        (c \in DOMAIN activeChains /\ AddStep(c, th))
            => \A d \in DOMAIN activeChains \ {c} :
                   activeChains'[d] = activeChains[d]

\* C5: branch_chain copies the parent's steps 1..at_step (all when
\* at_step is omitted) into a new in_progress chain for every at_step in
\* 0..N, the parent is unchanged, and a later add_step on either chain
\* does not change the other.
C5_BranchCopiesPrefix ==
    [][BranchCopiesPrefix /\ AddStepTouchesOneChain]_vars

\* C27: with the graph as chain store, every chain of the cache is a
\* ReasoningChain node of the graph with the cached status, and every step
\* of the cache is a ReasoningStep node with a HAS_STEP edge from its chain
C27_CacheIsWriteThrough ==
    chainStore = "neo4j" =>
        \A c \in DOMAIN activeChains :
            /\ c \in DOMAIN graphChain
            /\ graphChain[c].status = activeChains[c].status
            /\ \A i \in 1 .. Len(activeChains[c].steps) :
                 LET step == activeChains[c].steps[i]
                 IN /\ \E node \in graphStep : node.id = step.id
                    /\ \E e \in graphEdges :
                         e.type = "HAS_STEP" /\ e.from = c /\ e.to = step.id

\* ==================================================================
\* Properties of the governance middleware
\* ==================================================================

\* The records of the log that belong to wrapped call `id`
PreRecords(id) ==
    {i \in 1 .. Len(log) :
        log[i].call = id /\ log[i].action = Str(cur.toolName \o "_precheck")}

PostRecords(id) ==
    {i \in 1 .. Len(log) :
        log[i].call = id /\ log[i].action = Str(cur.toolName \o "_result")}

\* C6: when the pre-check fails (vault root not writable) and
\* block_on_failure is true, the wrapped call fails with GovernanceBlocked
\* and the tool function is never invoked, whatever enforce_logging is.
C6_BlockedCallNeverRunsTool ==
    (cur.id > 0 /\ ~cur.mkdirOk /\ omegaConfig.blockOnFailure)
        => /\ pc = "idle"
           /\ cur.outcome = "threw"
           /\ cur.error = "OMEGA_BLOCKED"
           /\ cur.toolRuns = 0

\* C7: a wrapped call that returns successfully with enforce_logging = true
\* has written exactly one pre-record and exactly one post-record, and the
\* post-record's timestamp is not earlier than the pre-record's.
C7_OnePreOnePostRecord ==
    (cur.outcome = "returned" /\ omegaConfig.enforceLogging)
        => /\ Cardinality(PreRecords(cur.id)) = 1
           /\ Cardinality(PostRecords(cur.id)) = 1
           /\ \A i \in PreRecords(cur.id), j \in PostRecords(cur.id) :
                  log[j].at >= log[i].at

\* C8: when the candidate log record fails schema validation, the
\* pipeline fails with GovernanceInvalidFormat, the record is not written
\* and the action is not executed.
C8_InvalidFormatStopsAction ==
    (cur.id > 0 /\ cur.pre.code = "OMEGA_INVALID_FORMAT")
        => /\ pc = "idle"
           /\ cur.outcome = "threw"
           /\ cur.error = "OMEGA_INVALID_FORMAT"
           /\ PreRecords(cur.id) = {}
           /\ cur.toolRuns = 0

\* C9: every log record the pipeline has written, pre-record or
\* post-record, satisfies validate(record).
C9_WrittenRecordsAreValid ==
    \A i \in 1 .. Len(log) : ValidateLogFormat(omegaConfig, log[i]).valid

\* C10: when persisting the pre-record fails, with enforce_logging = true
\* the pipeline raises the failure and the tool function is not run; with
\* enforce_logging = false it returns logged = false and the tool function
\* is run all the same.
C10_PreRecordWriteFailure ==
    (cur.id > 0 /\ cur.pre.code = "WRITE_FAILED")
        => IF omegaConfig.enforceLogging
           THEN /\ cur.pre.threw
                /\ pc = "idle"
                /\ cur.outcome = "threw"
                /\ cur.error = "WRITE_FAILED"
                /\ cur.toolRuns = 0
           ELSE /\ ~cur.pre.threw
                /\ cur.pre.logged = FALSE
                /\ \/ pc = "tool" /\ cur.toolRuns = 0
                   \/ pc # "tool" /\ cur.toolRuns = 1

\* C10 witness: with enforce_logging = false the pre-record could not be
\* written, and the tool function has run and returned
C10_Witness ==
    /\ cur.pre.code = "WRITE_FAILED"
    /\ ~omegaConfig.enforceLogging
    /\ cur.toolRuns = 1
    /\ cur.outcome = "returned"

\* C28: the records of a wrapped call are ordered pre-record, tool
\* function, post-record: when the tool function is about to start or has
\* started, the write of the pre-record is over (the record is in the log
\* if and only if the pre-check reported it logged) and no post-record
\* exists before the tool function has returned; in the log the pre-record
\* precedes the post-record
C28_PreRecordToolPostRecord ==
    /\ (pc \in {"tool", "post"} \/ cur.toolRuns > 0) =>
           Cardinality(PreRecords(cur.id)) = (IF cur.pre.logged THEN 1 ELSE 0)
    /\ PostRecords(cur.id) # {} =>
           (pc = "idle" /\ cur.toolRuns = 1 /\ cur.outcome = "returned")
    /\ \A i \in PreRecords(cur.id), j \in PostRecords(cur.id) : i < j

\* C28 witness: a wrapped call has returned with its pre-record and its
\* post-record written
C28_Witness ==
    /\ cur.outcome = "returned"
    /\ cur.toolRuns = 1
    /\ Cardinality(PreRecords(cur.id)) = 1
    /\ Cardinality(PostRecords(cur.id)) = 1

\* C37: when the tool function of a wrapped call has failed, the call has
\* written no post-record and the error delivered to the caller is the
\* tool function's own error, whether or not the error record could be
\* written.
C37_ToolErrorReachesCaller ==
    (cur.toolRuns > 0 /\ cur.outcome = "threw") =>
        /\ PostRecords(cur.id) = {}
        /\ cur.error = "TOOL_ERROR"

\* the field is present as a non-empty string
NonEmptyString(x) == x.t = "string" /\ x.v # ""

\* C29: under the default configuration validateLogFormat accepts a record
\* if and only if timestamp, type, source and action are non-empty strings
\* and the timestamp has the form YYYY-MM-DDTHH:MM:SS(.sss)?Z and parses to
\* a date, whatever the data field holds
C29_AcceptsIffFourFieldsWellFormed ==
    verdict.called =>
        (verdict.valid <=>
            /\ NonEmptyString(candidate.timestamp)
            /\ NonEmptyString(candidate.type)
            /\ NonEmptyString(candidate.source)
            /\ NonEmptyString(candidate.action)
            /\ IsoRegexTest(candidate.timestamp)
            /\ DateParses(candidate.timestamp))

\* ==================================================================
\* Properties of the model router
\* ==================================================================

\* a routeRequest has returned or thrown
RequestOver == rpc = "idle" /\ req.outcome # "none"

\* the error is a failure to connect to the runtime
BackendUnavailable(message) == IsRetryableError(message)

\* C11: a routed request without options.model selects the primary model
\* of its class when the inventory has it and the fallback when it has
\* not, and when the inventory has neither it fails with a
\* backend-unavailable error after maxRetries retries.
C11_PrimaryElseFallbackElseFail ==
    (RequestOver /\ req.opts.model = NoModel /\ req.inventoryRead) =>
        LET primaryIn == SomeModelMatches(req.models, req.primary)
            fallbackIn == SomeModelMatches(req.models, req.fallback)
        IN /\ primaryIn => req.selectedModel = req.primary
           /\ ~primaryIn => req.selectedModel = req.fallback
           /\ (~primaryIn /\ ~fallbackIn) =>
                 /\ req.outcome = "error"
                 /\ BackendUnavailable(req.error)
                 /\ req.retryCount = maxRetries

\* C12 as stated: one routed request invokes the runtime at most
\* maxRetries times.
C12_AtMostMaxRetriesInvocations == req.invocations <= maxRetries

\* C12: one routed request retries at most maxRetries times, so it invokes
\* the runtime at most maxRetries + 1 times: once, and once more for each
\* retry.
C12_AtMostMaxRetriesRetries ==
    /\ req.retryCount <= maxRetries
    /\ req.invocations = req.retryCount + (IF RequestOver THEN 1 ELSE 0)
    /\ req.invocations <= maxRetries + 1

\* a request that failed on its last permitted invocation
C12_Witness ==
    RequestOver /\ req.outcome = "error" /\ req.invocations = maxRetries + 1

\* C22: once set_default_model has reported success for a task class, a
\* routed request of that class without options.model selects the model
\* that was set whenever the inventory has it.
C22_SetDefaultThenRoute ==
    [][\A taskType \in TaskTypes, listOk \in BOOLEAN,
          options \in {o \in RouteOptions : o.model = NoModel} :
         (/\ RouteRequest(taskType, options, listOk)
          /\ setDefault.success
          /\ setDefault.taskType = taskType
          /\ req'.inventoryRead
          /\ SomeModelMatches(req'.models, setDefault.model)) =>
             req'.selectedModel = setDefault.model]_vars

\* C30: when the runtime fails with an error that is not retryable (the
\* model is not found), that invocation is the request's last one: the
\* request ends with this error and no retry is counted, so a request
\* whose first answer is such an error has invoked the runtime exactly once
C30_NonRetryableErrorNotRetried ==
    [][ExecuteWithRetry(RuntimeError(ModelNotFound)) =>
          /\ rpc' = "idle"
          /\ req'.outcome = "error"
          /\ req'.error = ModelNotFound
          /\ req'.retryCount = req.retryCount
          /\ req'.invocations = req.invocations + 1
          /\ (req.invocations = 0 => req'.invocations = 1)]_vars

\* C30 witness: a request has failed on its first invocation with the
\* error that is not retryable
C30_Witness ==
    /\ RequestOver
    /\ req.outcome = "error"
    /\ req.error = ModelNotFound
    /\ req.invocations = 1
    /\ req.retryCount = 0

\* C40: a route call that finds the cache stale and whose refresh fails
\* leaves the cached inventory and the time of the last refresh as they
\* were, and the cache is still stale after it
C40_FailedRefreshChangesNothing ==
    [][\A taskType \in TaskTypes, options \in RouteOptions :
         (/\ RouteRequest(taskType, options, FALSE)
          /\ (lastModelRefresh = Undef \/
              DateNow - lastModelRefresh > MODEL_CACHE_TTL)) =>
             /\ availableModels' = availableModels
             /\ lastModelRefresh' = lastModelRefresh
             /\ ~req'.inventoryRead
             /\ NeedsRefresh']_vars

\* C40 witness: a cache that had been filled went stale, and the refresh of
\* the route call in progress has failed
C40_Witness ==
    /\ rpc = "exec"
    /\ ~req.inventoryRead
    /\ availableModels # {}
    /\ lastModelRefresh # Undef
    /\ NeedsRefresh

\* C31: at most one refresh request to the runtime is in flight, and what
\* a reader gets is a whole inventory: the empty one of the start or the
\* one the runtime listed
C31_RefreshMutuallyExclusive ==
    /\ listCalls <= 1
    /\ snapshot.models \in {{}, runtimeModels}

\* C36: whenever the runtime has been invoked for a routed request, the
\* model name it was given is the selected model that the result reports,
\* whether opts.model is absent, undefined or names an unavailable model.
C36_InvokedModelIsSelectedModel ==
    req.invocations > 0 => req.invokedModel = req.selectedModel

\* ==================================================================
\* Properties of the tool registry
\* ==================================================================

\* callTool has been called
ToolCalled == toolCall.name # "none"

\* C13: callTool for a name that is not registered returns an envelope
\* with isError = true, raises nothing and invokes no handler.
C13_UnknownToolGivesErrorEnvelope ==
    (ToolCalled /\ ~toolCall.found) =>
        /\ ~toolCall.raised
        /\ toolCall.envelope.isError = "true"
        /\ ~toolCall.handlerInvoked

\* C14: callTool with a required field of the tool's input schema missing
\* does not invoke the handler and returns an error envelope.
C14_MissingRequiredFieldRejected ==
    (ToolCalled /\ toolCall.found /\ ~(toolCall.required \subseteq toolCall.args)) =>
        /\ ~toolCall.handlerInvoked
        /\ toolCall.envelope.isError = "true"

C16_CompletedMeansFullProgress ==
    \A t \in DOMAIN tasks :
        tasks[t].status = "completed" =>
            tasks[t].progress = 100 /\ tasks[t].completed_at # Undef

\* C17: a task that create_task or add_subtask has just created with a
\* parent, reporting success, has exactly one incoming HAS_SUBTASK
\* relationship, and no task has more than one.
C17_SubtaskHasOneParent ==
    /\ (/\ taskResult.op \in {"create_task", "add_subtask"}
        /\ taskResult.success
        /\ taskResult.parentTaskId # Undef) =>
           Cardinality(IncomingSubtasks(taskEdges, taskResult.taskId)) = 1
    /\ \A t \in DOMAIN tasks : Cardinality(IncomingSubtasks(taskEdges, t)) <= 1

\* C18: when delete_task with deleteSubtasks = true reports success,
\* neither the task nor any task that a HAS_SUBTASK relationship led to
\* from it is stored afterwards.
C18_DeleteRemovesTaskAndSubtasks ==
    [][\A taskId \in TaskIds :
         (/\ \E deleted \in SUBSET TaskIds, committed \in BOOLEAN :
                DeleteTask(taskId, TRUE, deleted, committed)
          /\ taskResult'.success) =>
             /\ ~GetEntityById(tasks', taskId)
             /\ \A u \in TaskIds :
                   <<taskId, u>> \in taskEdges => ~GetEntityById(tasks', u)]_vars

\* a task with at least one subtask has been deleted with its subtasks
C18_Witness ==
    /\ taskResult.op = "delete_task"
    /\ taskResult.success
    /\ taskResult.deleteSubtasks
    /\ taskResult.subtasks # {}

\* C38: an add_subtask call that has reported success has created the
\* HAS_SUBTASK relationship from the parent to the new subtask, whatever
\* delete_task calls ran while it was suspended.
C38_SuccessfulAddSubtaskLinked ==
    [][(\E call \in pendingSubtasks, linked \in BOOLEAN :
           ResumeLinkSubtask(call, linked) /\ taskResult'.success) =>
              <<taskResult'.parentTaskId, taskResult'.taskId>> \in taskEdges']_vars

\* C21: complete_task with a result leaves the stored tasks as update_task
\* with status completed and that result does, and like it reports
\* success exactly when the task exists.
C21_CompleteIsUpdateToCompleted ==
    [][\A taskId \in TaskIds, notes \in Results :
         (\E undefinedIsNull \in BOOLEAN :
             CompleteTask(taskId, notes, undefinedIsNull, TRUE)) =>
            /\ tasks' = UpdateEntity(tasks, taskId,
                           UpdateData("completed", Undef, notes, Timestamp))
            /\ ~taskResult'.threw
            /\ taskResult'.success = GetEntityById(tasks, taskId)]_vars

\* ==================================================================
\* Properties of the graph memory sub-server
\* ==================================================================

\* C19: create_entity fails when an entity with the same label and id
\* exists, so that no (label, id) has more than one entity.
C19_AtMostOneEntityPerLabelAndId ==
    /\ (entityResult.op = "create_entity" /\ entityResult.existed) =>
           ~entityResult.success
    /\ \A key \in EntityKeys : entities[key] <= 1

\* C20: create_relationship with a source or a target that does not exist
\* reports failure, and creates no relationship.
C20_MissingEndpointFails ==
    /\ (/\ entityResult.op = "create_relationship"
        /\ ~(entityResult.fromExisted /\ entityResult.toExisted)) =>
           ~entityResult.success
    /\ \A e \in rels : NodeExists(entities, e[1]) /\ NodeExists(entities, e[2])

\* ==================================================================
\* Properties of the sub-server registry
\* ==================================================================

\* C23: registering under a name that is already registered leaves the
\* existing entry (endpoint, tools, capabilities, registered_at, status) as
\* it was
C23_ReRegisterKeepsExistingEntry ==
    [][\A name \in ServerNames, endpoint \in Endpoints,
          serverTools \in ToolLists, capabilities \in Capabilities :
         (/\ RegisterServer(name, endpoint, serverTools, capabilities)
          /\ ServersHas(registeredServers, name)) =>
             GetServer(registeredServers', name) = GetServer(registeredServers, name)]_vars

\* ==================================================================
\* Properties of query_graph
\* ==================================================================

\* C24: query_graph with pattern 'connected' and maxDepth d returns the set
\* of the nodes that paths of 1 to d relationships, of any type and
\* direction, reach from the start entity
C24_ConnectedWithinMaxDepth ==
    [][\A key \in EntityKeys, maxDepth \in 1 .. MaxDepth :
         QueryGraphTool(key, maxDepth, TRUE) =>
             queryResult'.entities = PathEnds(rels, key, {}, maxDepth)]_vars

\* ==================================================================
\* Properties of the hub process
\* ==================================================================

\* C25: after a dispatch that ended in an uncaught exception or an
\* unhandled promise rejection the process is still serving
C25_UncaughtNeverTerminates ==
    (\E i \in 1 .. Len(served) : served[i] \in Fatal) => proc.state = "serving"

\* ==================================================================
\* Properties of overlapping calls on one chain
\* ==================================================================
DistinctStepNumbers ==
    \A c \in DOMAIN activeChains :
        \A i, j \in 1 .. Len(activeChains[c].steps) :
            i # j => activeChains[c].steps[i].step_number #
                     activeChains[c].steps[j].step_number

DistinctStepOrders ==
    \A e1, e2 \in {e \in graphEdges : e.type = "HAS_STEP"} :
        (e1 # e2 /\ e1.from = e2.from) => e1.order # e2.order

\* what the graph holds of a chain once every call on it has returned is
\* what calls executed one at a time leave: the status of the cache
StatusAsIfOneAtATime ==
    \A c \in DOMAIN activeChains :
        (dbUp /\ Quiescent(c) /\ c \in DOMAIN graphChain) =>
            graphChain[c].status = activeChains[c].status

\* C26: overlapping add_step and conclude calls on one chain take effect
\* as if executed one at a time: step numbers of a chain are pairwise
\* distinct, the order values of its HAS_STEP edges are pairwise distinct,
\* and the graph ends with the state the last call left in the cache
C26_OverlappingCallsSerialized ==
    /\ DistinctStepNumbers
    /\ DistinctStepOrders
    /\ StatusAsIfOneAtATime

\* ==================================================================
\* Properties of the notebook sub-server
\* ==================================================================

\* C32: once two append_note calls on the same file have both reported
\* success, the file holds the original content followed by both
\* appended bodies (in either order): no append is lost.
C32_NoLostAppend ==
    (\A c \in AppendIds : appendCalls[c].outcome = "success") =>
        \/ note = Original \o <<appendCalls[1].content, appendCalls[2].content>>
        \/ note = Original \o <<appendCalls[2].content, appendCalls[1].content>>

\* ==================================================================
\* Properties of the graph client
\* ==================================================================

\* C33: after any sequence of executeReadTransaction and
\* executeWriteTransaction calls that have returned or thrown, no session
\* opened by one of them is still open.
C33_TransactionReleasesSession ==
    \A c \in DbCallIds :
        (dbCalls[c].op \in TransactionKinds /\ dbCalls[c].pc = "idle") =>
            dbCalls[c].session # "open"

\* a write transaction threw and its session has been closed
C33_Witness ==
    \E c \in DbCallIds :
        /\ dbCalls[c].op = "write"
        /\ dbCalls[c].pc = "idle"
        /\ dbCalls[c].outcome = "throw"
        /\ dbCalls[c].session = "closed"

\* C39: after any sequence of checkHealth calls that have returned,
\* healthy or unhealthy, no session opened by one of them is still open.
C39_HealthProbeReleasesSession ==
    \A c \in DbCallIds :
        (dbCalls[c].op = "health" /\ dbCalls[c].pc = "idle") =>
            dbCalls[c].session # "open"

\* ==================================================================
\* Properties of the graceful shutdown
\* ==================================================================

C35_ShutdownEventuallyExits ==
    /\ (Len(triggers) > 0) ~> (proc.state = "exited")
    /\ [](AllSettled(teardown) => (proc.state = "exited" /\ proc.exitCode = 0))
    /\ [](teardown.timer = "fired" => (proc.state = "exited" /\ proc.exitCode = 1))

\* the deadline expired while a callback was still pending
C35_Witness ==
    /\ teardown.timer = "fired"
    /\ proc.state = "exited"
    /\ \E cb \in CallbackNames : teardown.settled[cb] = "no"

====
